---- MODULE Spec2Model ----
(***************************************************************************)
(* A model of the stasis idle manager (src/src/core/manager): the cascade  *)
(* cursor over the active action set, the activity reset with its debounce *)
(* window, the pause flags and the lock lifecycle.  Time is counted in     *)
(* whole seconds; an Instant is a natural number and Option<Instant> is    *)
(* either None or such a number.                                           *)
(***************************************************************************)
EXTENDS Integers, Sequences, FiniteSets, TLC

\* ------------------------------------------------------------------ bounds
MaxTime == 6
MaxDebounce == 1
MaxLevel == 1

\* ------------------------------------------------------------------ values
None == -1

Min(a, b) == IF a <= b THEN a ELSE b

\* IdleActionBlock as built by collect_actions: last_triggered starts as None.
Act(kind, timeout) == [kind |-> kind, timeout |-> timeout, last_triggered |-> None]

\* The configurations the model starts from: the three action sets and
\* whether the lock command identity is known to the lock state.
Configs ==
    { [default |-> <<Act("Brightness", 1), Act("LockScreen", 2), Act("Suspend", 3)>>,
       ac |-> <<>>, battery |-> <<>>, lock_command |-> "Some"],
      [default |-> <<Act("Custom", 0), Act("LockScreen", 1), Act("Suspend", 2)>>,
       ac |-> <<>>, battery |-> <<>>, lock_command |-> "None"],
      [default |-> <<Act("Custom", 1)>>,
       ac |-> <<Act("Dpms", 1), Act("LockScreen", 2)>>,
       battery |-> <<>>, lock_command |-> "Some"] }

VARIABLES
    now,                    \* Instant::now()
    debounce_seconds,       \* cfg.debounce_seconds
    default_actions,
    ac_actions,
    battery_actions,
    on_battery,             \* what state.on_battery() returns
    action_index,
    last_activity,
    last_activity_display,
    debounce,
    paused,
    manually_paused,
    previous_brightness,
    lock_state,
    current_block,
    panicked,               \* a call has panicked (index out of bounds)
    dispatched,             \* indices of the actions the last step dispatched
    clean,                  \* no reset, pause, lock event or late evaluation so far
    fired,                  \* dispatches of check_timeouts so far, while clean
    pinned,                 \* the last firing pinned the cursor and no reset followed
    notify,                 \* state.notify holds a wake-up permit for the idle task
    idle_pc,                \* where the idle task stands in its loop
    sleep_deadline,         \* the deadline the idle task sleeps until
    lock_notify,            \* state.lock_notify holds a permit for the lock watcher
    spawned_tasks,          \* the registry of command tasks: empty, or what its tasks do
    idle_task_handle,
    lock_task_handle,
    shutdown_pc,            \* where a call of shutdown stands
    idle_shutdown,          \* the idle task's wait on shutdown_flag has been woken
    watch_pc,               \* where the lock watcher stands
    watch_shutdown,         \* the lock watcher's wait on shutdown_flag has been woken
    cfg,                    \* state.cfg: "Some" configuration or "None"
    media_playing,          \* the media monitor's flag: it has paused the manager
    instants_triggered,
    timer                   \* the legacy IdleTimer, "None" while none is constructed

vars == <<now, debounce_seconds, default_actions, ac_actions, battery_actions,
          on_battery, action_index, last_activity, last_activity_display,
          debounce, paused, manually_paused, previous_brightness, lock_state,
          current_block, panicked, dispatched, clean, fired, pinned,
          notify, idle_pc, sleep_deadline, lock_notify, spawned_tasks,
          idle_task_handle, lock_task_handle, shutdown_pc, idle_shutdown,
          watch_pc, watch_shutdown, cfg, media_playing, instants_triggered, timer>>

\* The state only some operations touch.
rest == <<cfg, media_playing, instants_triggered, timer>>

\* The idle task's own variables.
sched == <<idle_pc, sleep_deadline>>

\* The task handles, the shutdown call and the lock watcher.
tasks == <<idle_task_handle, lock_task_handle, shutdown_pc, idle_shutdown,
           watch_pc, watch_shutdown>>

\* ManagerState::new(cfg)
Init ==
    /\ now = 0
    /\ debounce_seconds \in 1..MaxDebounce
    /\ cfg = "Some"
    /\ media_playing = FALSE
    /\ instants_triggered = FALSE
    /\ timer = "None"
    /\ \E c \in Configs :
          /\ default_actions = c.default
          /\ ac_actions = c.ac
          /\ battery_actions = c.battery
          /\ lock_state = [is_locked |-> FALSE, post_advanced |-> FALSE,
                           pid |-> "None", command |-> c.lock_command]
    /\ on_battery = "None"
    /\ action_index = 0
    /\ last_activity = 0
    /\ last_activity_display = 0
    /\ debounce = None
    /\ paused = FALSE
    /\ manually_paused = FALSE
    /\ previous_brightness = None
    /\ current_block = "None"
    /\ notify = FALSE
    /\ idle_pc = "top"
    /\ sleep_deadline = None
    /\ lock_notify = FALSE
    /\ spawned_tasks = "empty"
    /\ idle_task_handle = "None"
    /\ lock_task_handle = "None"
    /\ shutdown_pc = "idle"
    /\ idle_shutdown = FALSE
    /\ watch_pc = "outer"
    /\ watch_shutdown = FALSE
    /\ panicked = FALSE
    /\ dispatched = <<>>
    /\ clean = TRUE
    /\ fired = 0
    /\ pinned = FALSE

\* ------------------------------------------------------------------ helpers

\* BlockName falling back to `default` on AC power.
BlockNameDefaultOnAc ==
    IF ac_actions # <<>> \/ battery_actions # <<>>
    THEN CASE on_battery = "Some(true)" -> "battery"
           [] OTHER -> "default"
    ELSE "default"

\* BlockName following the power source also when no profile is configured.
BlockNameAlwaysByPower ==
    CASE on_battery = "Some(true)" -> "battery"
      [] on_battery = "Some(false)" -> "ac"
      [] OTHER -> "default"

\* The block selection of reset, check_timeouts and trigger_all_idle_actions.
BlockName ==
    IF ac_actions # <<>> \/ battery_actions # <<>>
    THEN CASE on_battery = "Some(true)" -> "battery"
           [] on_battery = "Some(false)" -> "ac"
           [] OTHER -> "default"
    ELSE "default"

ActionsOf(block) ==
    CASE block = "ac" -> ac_actions
      [] block = "battery" -> battery_actions
      [] OTHER -> default_actions

\* actions[i] of a Vec, i counted from 0
At(actions, i) == actions[i + 1]

SetLast(actions, i, t) ==
    [k \in 1..Len(actions) |->
        IF k = i + 1 THEN [actions[k] EXCEPT !.last_triggered = t] ELSE actions[k]]

\* ClearLast that clears nothing.
ClearLastNothing(actions) == actions

\* The loop of reset over one set: every last_triggered becomes None.
ClearLast(actions) ==
    [k \in 1..Len(actions) |-> [actions[k] EXCEPT !.last_triggered = None]]

\* Store `actions` as the block named `block`; the other two become d, a, b.
StoreBlocks(block, actions, d, a, b) ==
    /\ default_actions' = IF block = "default" THEN actions ELSE d
    /\ ac_actions' = IF block = "ac" THEN actions ELSE a
    /\ battery_actions' = IF block = "battery" THEN actions ELSE b

\* IdleActionBlock::is_instant
IsInstant(a) == a.timeout = 0

\* now.duration_since(earlier): saturates to zero
DurationSince(t, earlier) == IF t >= earlier THEN t - earlier ELSE 0

\* actions.iter().position(|a| matches!(a.kind, LockScreen)), or None
LockIndex(actions) ==
    IF \E k \in 1..Len(actions) : actions[k].kind = "LockScreen"
    THEN (CHOOSE k \in 1..Len(actions) :
            /\ actions[k].kind = "LockScreen"
            /\ \A j \in 1..(k - 1) : actions[j].kind # "LockScreen") - 1
    ELSE None

\* actions.iter().position(|a| a.last_triggered.is_none())
\*     .unwrap_or(actions.len().saturating_sub(1))
FirstUntriggered(actions) ==
    IF \E k \in 1..Len(actions) : actions[k].last_triggered = None
    THEN (CHOOSE k \in 1..Len(actions) :
            /\ actions[k].last_triggered = None
            /\ \A j \in 1..(k - 1) : actions[j].last_triggered # None) - 1
    ELSE IF Len(actions) = 0 THEN 0 ELSE Len(actions) - 1

\* ------------------------------------------------------------------ dispatch

\* BrightnessAfter capturing on every Brightness dispatch.
BrightnessAfterAlways(action, pb, captured) ==
    IF action.kind = "Brightness" THEN captured ELSE pb

\* run_action's effect on previous_brightness: capture once, when none is held.
\* `captured` is what capture_brightness obtained (None on failure).
BrightnessAfter(action, pb, captured) ==
    IF action.kind = "Brightness" /\ pb = None THEN captured ELSE pb

\* LockStateAfter launching first and marking the lock only on success.
LockStateAfterLaunchFirst(action, ls, launched) ==
    IF action.kind = "LockScreen"
    THEN [ls EXCEPT !.is_locked = (launched \/ @),
                    !.pid = IF launched THEN "Some" ELSE @]
    ELSE ls

\* run_action's effect on the lock state: is_locked before the launch, the
\* pid only when the detached launch succeeded.
LockStateAfter(action, ls, launched) ==
    IF action.kind = "LockScreen"
    THEN [ls EXCEPT !.is_locked = TRUE,
                    !.pid = IF launched THEN "Some" ELSE @]
    ELSE ls

\* LockNotifyAfter with no permit left for the lock watcher.
LockNotifyAfterNone(indices, actions, ln) == ln

\* run_action's effect on lock_notify over the dispatched indices of
\* `actions`: a LockScreen action leaves a permit.
LockNotifyAfter(indices, actions, ln) ==
    ln \/ \E k \in 1..Len(indices) : At(actions, indices[k]).kind = "LockScreen"

\* run_command_for_action's effect on the registry: every other kind of
\* action pushes the handle of a task running its command.
SpawnedAfter(indices, actions, st) ==
    IF \E k \in 1..Len(indices) : At(actions, indices[k]).kind # "LockScreen"
    THEN "running" ELSE st

\* ------------------------------------------------------------------ check_timeouts

\* last_ref: the action's own stamp if set, else the activity baseline
LastRef(action, la) ==
    IF action.last_triggered # None THEN action.last_triggered ELSE la

\* elapsed >= Duration::from_secs(timeout)
Elapsed(action, la, t) == DurationSince(t, LastRef(action, la)) >= action.timeout

\* FireStamps without the seed of the next action's countdown.
FireStampsNoSeed(actions, index, cursor, t) == SetLast(actions, index, t)

\* The stamps after firing actions[index] with the cursor at `cursor`.
FireStamps(actions, index, cursor, t) ==
    LET stamped == SetLast(actions, index, t)
    IN IF cursor + 1 < Len(actions) THEN SetLast(stamped, cursor + 1, t) ELSE stamped

\* FireCursor without the pin to the last index.
FireCursorUnclamped(actions, cursor) == cursor + 1

\* The cursor after firing: advanced by one, pinned to the last index.
FireCursor(actions, cursor) ==
    IF cursor + 1 < Len(actions) THEN cursor + 1 ELSE Len(actions) - 1

\* Blocked without the debounce window.
BlockedNoDebounce(t) == paused \/ manually_paused

\* Blocked without the manual flag.
BlockedAutoOnly(t) == paused \/ (debounce # None /\ t < debounce)

\* Blocked without the automatic flag.
BlockedManualOnly(t) == manually_paused \/ (debounce # None /\ t < debounce)

\* The early returns of check_timeouts before the block is selected.
Blocked(t) == paused \/ manually_paused \/ (debounce # None /\ t < debounce)

\* The baseline check_timeouts evaluates with: rebaselined when the debounce
\* deadline has passed.
Baseline(t) == IF debounce # None /\ t >= debounce THEN t ELSE last_activity

\* check_timeouts would dispatch an action if called now.
WouldFire ==
    LET actions == ActionsOf(BlockName)
        index == Min(action_index, Len(actions) - 1)
    IN /\ ~Blocked(now)
       /\ actions # <<>>
       /\ ~(At(actions, index).kind = "LockScreen" /\ lock_state.is_locked)
       /\ Elapsed(At(actions, index), Baseline(now), now)

\* check_timeouts that leaves the action un-fired when its lock command
\* fails to launch.
check_timeoutsUndoOnFailure(captured, launched) ==
    /\ UNCHANGED <<now, debounce_seconds, rest, on_battery, last_activity_display, paused,
                   manually_paused, panicked, notify>>
    /\ IF Blocked(now)
       THEN /\ UNCHANGED <<default_actions, ac_actions, battery_actions, action_index,
                           last_activity, debounce, previous_brightness, lock_state,
                           current_block, clean, fired, pinned>>
            /\ dispatched' = <<>>
       ELSE LET block == BlockName
                actions == ActionsOf(block)
                index == Min(action_index, Len(actions) - 1)
            IN /\ last_activity' = Baseline(now)
               /\ debounce' = None
               /\ current_block' = block
               /\ IF actions = <<>>
                  THEN /\ UNCHANGED <<default_actions, ac_actions, battery_actions,
                                      action_index, previous_brightness, lock_state,
                                      clean, fired, pinned>>
                       /\ dispatched' = <<>>
                  ELSE IF At(actions, index).kind = "LockScreen" /\ lock_state.is_locked
                  THEN /\ UNCHANGED <<default_actions, ac_actions, battery_actions,
                                      action_index, previous_brightness, lock_state,
                                      pinned>>
                       /\ dispatched' = <<>>
                       /\ clean' = FALSE
                       /\ fired' = 0
                  ELSE IF /\ Elapsed(At(actions, index), Baseline(now), now)
                          /\ At(actions, index).kind = "LockScreen"
                          /\ ~launched
                  THEN /\ UNCHANGED <<default_actions, ac_actions, battery_actions,
                                      action_index, previous_brightness, pinned>>
                       /\ lock_state' = LockStateAfter(At(actions, index), lock_state, launched)
                       /\ dispatched' = <<index>>
                       /\ clean' = clean
                       /\ fired' = fired
                  ELSE IF Elapsed(At(actions, index), Baseline(now), now)
                  THEN /\ StoreBlocks(block, FireStamps(actions, index, action_index, now),
                                      default_actions, ac_actions, battery_actions)
                       /\ action_index' = FireCursor(actions, action_index)
                       /\ previous_brightness' =
                              BrightnessAfter(At(actions, index), previous_brightness, captured)
                       /\ lock_state' = LockStateAfter(At(actions, index), lock_state, launched)
                       /\ dispatched' = <<index>>
                       /\ clean' = clean
                       /\ fired' = IF clean THEN fired + 1 ELSE 0
                       /\ pinned' = ~(action_index + 1 < Len(actions))
                  ELSE /\ UNCHANGED <<default_actions, ac_actions, battery_actions,
                                      action_index, previous_brightness, lock_state,
                                      clean, fired, pinned>>
                       /\ dispatched' = <<>>
    /\ lock_notify' = LockNotifyAfter(dispatched', ActionsOf(BlockName), lock_notify)
    /\ spawned_tasks' = SpawnedAfter(dispatched', ActionsOf(BlockName), spawned_tasks)

check_timeouts(captured, launched) ==
    /\ UNCHANGED <<now, debounce_seconds, rest, on_battery, last_activity_display, paused,
                   manually_paused, panicked, notify>>
    /\ IF Blocked(now)
       THEN /\ UNCHANGED <<default_actions, ac_actions, battery_actions, action_index,
                           last_activity, debounce, previous_brightness, lock_state,
                           current_block, clean, fired, pinned>>
            /\ dispatched' = <<>>
       ELSE LET block == BlockName
                actions == ActionsOf(block)
                index == Min(action_index, Len(actions) - 1)
            IN /\ last_activity' = Baseline(now)
               /\ debounce' = None
               /\ current_block' = block
               /\ IF actions = <<>>
                  THEN /\ UNCHANGED <<default_actions, ac_actions, battery_actions,
                                      action_index, previous_brightness, lock_state,
                                      clean, fired, pinned>>
                       /\ dispatched' = <<>>
                  ELSE IF At(actions, index).kind = "LockScreen" /\ lock_state.is_locked
                  THEN /\ UNCHANGED <<default_actions, ac_actions, battery_actions,
                                      action_index, previous_brightness, lock_state,
                                      pinned>>
                       /\ dispatched' = <<>>
                       /\ clean' = FALSE
                       /\ fired' = 0
                  ELSE IF Elapsed(At(actions, index), Baseline(now), now)
                  THEN /\ StoreBlocks(block, FireStamps(actions, index, action_index, now),
                                      default_actions, ac_actions, battery_actions)
                       /\ action_index' = FireCursor(actions, action_index)
                       /\ previous_brightness' =
                              BrightnessAfter(At(actions, index), previous_brightness, captured)
                       /\ lock_state' = LockStateAfter(At(actions, index), lock_state, launched)
                       /\ dispatched' = <<index>>
                       /\ clean' = clean
                       /\ fired' = IF clean THEN fired + 1 ELSE 0
                       /\ pinned' = ~(action_index + 1 < Len(actions))
                  ELSE /\ UNCHANGED <<default_actions, ac_actions, battery_actions,
                                      action_index, previous_brightness, lock_state,
                                      clean, fired, pinned>>
                       /\ dispatched' = <<>>
    /\ lock_notify' = LockNotifyAfter(dispatched', ActionsOf(BlockName), lock_notify)
    /\ spawned_tasks' = SpawnedAfter(dispatched', ActionsOf(BlockName), spawned_tasks)

\* A call of check_timeouts; the brightness read and the outcome of the launch
\* are inputs of the call only when it fires an action.
CheckTimeouts ==
    /\ UNCHANGED <<sched, tasks>>
    /\ IF WouldFire
       THEN \E captured \in {None} \cup (0..MaxLevel), launched \in BOOLEAN :
                check_timeouts(captured, launched)
       ELSE check_timeouts(None, FALSE)

\* ------------------------------------------------------------------ reset

\* The lock-aware adjustment of reset applies.
LockAdjusts(actions, cursor, locked) ==
    /\ locked
    /\ LockIndex(actions) # None
    /\ cursor <= LockIndex(actions)

\* ResetCursor moving two past the lock action.
ResetCursorTwoPast(actions, cursor, locked) ==
    IF LockAdjusts(actions, cursor, locked) THEN LockIndex(actions) + 2 ELSE cursor

\* The cursor reset leaves.
ResetCursor(actions, cursor, locked) ==
    IF LockAdjusts(actions, cursor, locked) THEN LockIndex(actions) + 1 ELSE cursor

\* ResetStamps stamping the lock action itself instead of the one after it.
ResetStampsAtLock(actions, cursor, locked, debounce_end) ==
    IF LockAdjusts(actions, cursor, locked)
    THEN SetLast(actions, LockIndex(actions), debounce_end)
    ELSE actions

\* The stamps reset leaves on the active block (already cleared).
ResetStamps(actions, cursor, locked, debounce_end) ==
    IF LockAdjusts(actions, cursor, locked) /\ LockIndex(actions) + 1 < Len(actions)
    THEN SetLast(actions, LockIndex(actions) + 1, debounce_end)
    ELSE actions

reset ==
    IF cfg = "None"
    THEN \* "No configuration available, skipping reset"
         /\ dispatched' = <<>>
         /\ UNCHANGED <<now, debounce_seconds, rest, default_actions, ac_actions,
                        battery_actions, on_battery, action_index, last_activity,
                        last_activity_display, debounce, paused, manually_paused,
                        previous_brightness, lock_state, current_block, panicked,
                        clean, fired, pinned, notify, sched, tasks, lock_notify,
                        spawned_tasks>>
    ELSE
           /\ UNCHANGED <<sched, tasks, lock_notify, spawned_tasks>>
           /\ dispatched' = <<>>
           /\ clean' = FALSE
           /\ fired' = 0
           /\ pinned' = FALSE
           /\ UNCHANGED <<now, debounce_seconds, rest, on_battery, last_activity, paused,
                          manually_paused>>
           /\ previous_brightness' = None
           /\ last_activity_display' = now
           /\ debounce' = now + debounce_seconds
           /\ LET block == BlockName
                  actions == ClearLast(ActionsOf(block))
                  index == FirstUntriggered(actions)
              IN /\ current_block' = block
                 /\ IF actions = <<>>
                    THEN \* actions[index] is out of bounds
                         /\ panicked' = TRUE
                         /\ StoreBlocks(block, actions, ClearLast(default_actions),
                                        ClearLast(ac_actions), ClearLast(battery_actions))
                         /\ UNCHANGED <<action_index, lock_state, notify>>
                    ELSE IF IsInstant(At(actions, index))
                    THEN \* returns before notify_one
                         /\ StoreBlocks(block, actions, ClearLast(default_actions),
                                        ClearLast(ac_actions), ClearLast(battery_actions))
                         /\ UNCHANGED <<action_index, lock_state, panicked, notify>>
                    ELSE /\ StoreBlocks(block,
                                        ResetStamps(actions, action_index, lock_state.is_locked,
                                                    now + debounce_seconds),
                                        ClearLast(default_actions), ClearLast(ac_actions),
                                        ClearLast(battery_actions))
                         /\ action_index' = ResetCursor(actions, action_index, lock_state.is_locked)
                         /\ lock_state' =
                               [lock_state EXCEPT !.post_advanced =
                                   IF LockAdjusts(actions, action_index, lock_state.is_locked)
                                   THEN TRUE ELSE @]
                         /\ notify' = TRUE
                         /\ UNCHANGED panicked

Reset == reset

\* ------------------------------------------------------------------ pause / resume

\* pause that leaves the automatic flag set on a manual pause.
pauseKeepsAuto(manual) ==
    /\ UNCHANGED <<notify, sched, tasks, lock_notify, spawned_tasks>>
    /\ dispatched' = <<>>
    /\ clean' = FALSE
    /\ fired' = 0
    /\ UNCHANGED pinned
    /\ manually_paused' = IF manual THEN TRUE ELSE manually_paused
    /\ paused' = IF ~manual /\ ~manually_paused THEN TRUE ELSE paused
    /\ UNCHANGED <<now, debounce_seconds, cfg, instants_triggered, timer,
                   default_actions, ac_actions, battery_actions,
                   on_battery, action_index, last_activity, last_activity_display,
                   debounce, previous_brightness, lock_state, current_block, panicked>>

\* pause whose automatic form rebaselines the idle time.
pauseRebaselines(manual) ==
    /\ UNCHANGED <<notify, sched, tasks, lock_notify, spawned_tasks>>
    /\ dispatched' = <<>>
    /\ clean' = FALSE
    /\ fired' = 0
    /\ UNCHANGED pinned
    /\ manually_paused' = IF manual THEN TRUE ELSE manually_paused
    /\ paused' = IF manual THEN FALSE
                 ELSE IF ~manually_paused THEN TRUE ELSE paused
    /\ last_activity' = IF manual THEN last_activity ELSE now
    /\ UNCHANGED <<now, debounce_seconds, cfg, instants_triggered, timer,
                   default_actions, ac_actions, battery_actions,
                   on_battery, action_index, last_activity_display,
                   debounce, previous_brightness, lock_state, current_block, panicked>>

\* pause whose automatic form sets paused even under a manual pause.
pauseAutoOverManual(manual) ==
    /\ UNCHANGED <<notify, sched, tasks, lock_notify, spawned_tasks>>
    /\ dispatched' = <<>>
    /\ clean' = FALSE
    /\ fired' = 0
    /\ UNCHANGED pinned
    /\ manually_paused' = IF manual THEN TRUE ELSE manually_paused
    /\ paused' = IF manual THEN FALSE
                 ELSE TRUE
    /\ UNCHANGED <<now, debounce_seconds, cfg, instants_triggered, timer,
                   default_actions, ac_actions, battery_actions,
                   on_battery, action_index, last_activity, last_activity_display,
                   debounce, previous_brightness, lock_state, current_block, panicked>>

pause(manual) ==
    /\ UNCHANGED <<notify, sched, tasks, lock_notify, spawned_tasks>>
    /\ dispatched' = <<>>
    /\ clean' = FALSE
    /\ fired' = 0
    /\ UNCHANGED pinned
    /\ manually_paused' = IF manual THEN TRUE ELSE manually_paused
    /\ paused' = IF manual THEN FALSE
                 ELSE IF ~manually_paused THEN TRUE ELSE paused
    /\ UNCHANGED <<now, debounce_seconds, cfg, instants_triggered, timer,
                   default_actions, ac_actions, battery_actions,
                   on_battery, action_index, last_activity, last_activity_display,
                   debounce, previous_brightness, lock_state, current_block, panicked>>

\* resume whose manual form clears the automatic flag unconditionally.
resumeClearsAuto(manually) ==
    /\ UNCHANGED <<notify, sched, tasks, lock_notify, spawned_tasks>>
    /\ dispatched' = <<>>
    /\ clean' = FALSE
    /\ fired' = 0
    /\ UNCHANGED pinned
    /\ manually_paused' = IF manually THEN FALSE ELSE manually_paused
    /\ paused' = IF manually THEN FALSE
                 ELSE IF ~manually_paused /\ paused THEN FALSE ELSE paused
    /\ UNCHANGED <<now, debounce_seconds, cfg, instants_triggered, timer,
                   default_actions, ac_actions, battery_actions,
                   on_battery, action_index, last_activity, last_activity_display,
                   debounce, previous_brightness, lock_state, current_block, panicked>>

resume(manually) ==
    /\ UNCHANGED <<notify, sched, tasks, lock_notify, spawned_tasks>>
    /\ dispatched' = <<>>
    /\ clean' = FALSE
    /\ fired' = 0
    /\ UNCHANGED pinned
    /\ manually_paused' = IF manually /\ manually_paused THEN FALSE ELSE manually_paused
    /\ paused' = IF manually
                 THEN (IF manually_paused THEN FALSE ELSE paused)
                 ELSE IF ~manually_paused /\ paused THEN FALSE ELSE paused
    /\ UNCHANGED <<now, debounce_seconds, cfg, instants_triggered, timer,
                   default_actions, ac_actions, battery_actions,
                   on_battery, action_index, last_activity, last_activity_display,
                   debounce, previous_brightness, lock_state, current_block, panicked>>

Pause == \E manual \in BOOLEAN : pause(manual) /\ UNCHANGED media_playing

Resume == \E manually \in BOOLEAN : resume(manually) /\ UNCHANGED media_playing

\* toggle_state: the manual pause or the manual resume.
toggle_state(inhibit) == IF inhibit THEN pause(TRUE) ELSE resume(TRUE)

ToggleState == \E inhibit \in BOOLEAN : toggle_state(inhibit) /\ UNCHANGED media_playing

\* ------------------------------------------------------------------ trigger_all_idle_actions

\* TriggerFrom without the skip of a LockScreen action met while locked.
RECURSIVE TriggerFromNoSkip(_, _, _, _, _, _, _)
TriggerFromNoSkip(actions, k, pb, ls, done, captured, launched) ==
    IF k >= Len(actions)
    THEN [pb |-> pb, ls |-> ls, dispatched |-> done]
    ELSE TriggerFromNoSkip(actions, k + 1,
                           BrightnessAfter(At(actions, k), pb, captured),
                           LockStateAfter(At(actions, k), ls, launched),
                           Append(done, k), captured, launched)

\* The dispatch loop of trigger_all_idle_actions from position k on: what it
\* leaves of previous_brightness and of the lock state, and the indices it
\* dispatched.  A LockScreen action met while locked is skipped.
RECURSIVE TriggerFrom(_, _, _, _, _, _, _)
TriggerFrom(actions, k, pb, ls, done, captured, launched) ==
    IF k >= Len(actions)
    THEN [pb |-> pb, ls |-> ls, dispatched |-> done]
    ELSE IF At(actions, k).kind = "LockScreen" /\ ls.is_locked
    THEN TriggerFrom(actions, k + 1, pb, ls, done, captured, launched)
    ELSE TriggerFrom(actions, k + 1,
                     BrightnessAfter(At(actions, k), pb, captured),
                     LockStateAfter(At(actions, k), ls, launched),
                     Append(done, k), captured, launched)

\* StampAll stamping only the last action.
StampLastOnly(actions, t) ==
    [k \in 1..Len(actions) |->
        IF k = Len(actions) THEN [actions[k] EXCEPT !.last_triggered = t] ELSE actions[k]]

\* Every action of the set stamped as fired at t.
StampAll(actions, t) ==
    [k \in 1..Len(actions) |-> [actions[k] EXCEPT !.last_triggered = t]]

trigger_all_idle_actions(captured, launched) ==
    LET block == BlockName
        actions == ActionsOf(block)
        r == TriggerFrom(actions, 0, previous_brightness, lock_state, <<>>,
                         captured, launched)
    IN /\ clean' = FALSE
       /\ fired' = 0
       /\ pinned' = (actions # <<>> \/ pinned)
       /\ UNCHANGED notify
       /\ UNCHANGED <<now, debounce_seconds, rest, on_battery, last_activity,
                      last_activity_display, debounce, paused, manually_paused, current_block, panicked>>
       /\ IF actions = <<>>
          THEN /\ UNCHANGED <<default_actions, ac_actions, battery_actions,
                              action_index, previous_brightness, lock_state>>
               /\ dispatched' = <<>>
          ELSE /\ StoreBlocks(block, StampAll(actions, now),
                              default_actions, ac_actions, battery_actions)
               /\ action_index' = Len(actions) - 1
               /\ previous_brightness' = r.pb
               /\ lock_state' = r.ls
               /\ dispatched' = r.dispatched
       /\ lock_notify' = LockNotifyAfter(dispatched', actions, lock_notify)
       /\ spawned_tasks' = SpawnedAfter(dispatched', actions, spawned_tasks)

TriggerAllIdleActions ==
    \E captured \in {None} \cup (0..MaxLevel), launched \in BOOLEAN :
        trigger_all_idle_actions(captured, launched) /\ UNCHANGED <<sched, tasks>>

\* ------------------------------------------------------------------ lock watcher

\* lock_ended that leaves the cursor where the cascade had taken it.
lock_endedKeepsCursor ==
    /\ lock_state.is_locked
    /\ lock_state.command = "Some"
    /\ dispatched' = <<>>
    /\ clean' = FALSE
    /\ fired' = 0
    /\ pinned' = FALSE
    /\ lock_state' = [lock_state EXCEPT !.pid = "None", !.post_advanced = FALSE,
                                        !.is_locked = FALSE]
    /\ notify' = TRUE
    /\ UNCHANGED <<sched, tasks, lock_notify, spawned_tasks>>
    /\ UNCHANGED <<now, debounce_seconds, rest, default_actions, ac_actions, battery_actions,
                   on_battery, action_index, last_activity, last_activity_display,
                   debounce, paused, manually_paused, previous_brightness,
                   current_block, panicked>>

\* The lock watcher found the lock process gone (the lock was active and the
\* lock command is known).
lock_ended ==
    /\ lock_state.is_locked
    /\ lock_state.command = "Some"
    /\ dispatched' = <<>>
    /\ clean' = FALSE
    /\ fired' = 0
    /\ pinned' = FALSE
    /\ lock_state' = [lock_state EXCEPT !.pid = "None", !.post_advanced = FALSE,
                                        !.is_locked = FALSE]
    /\ action_index' = 0
    /\ notify' = TRUE
    /\ UNCHANGED <<sched, tasks, lock_notify, spawned_tasks>>
    /\ UNCHANGED <<now, debounce_seconds, rest, default_actions, ac_actions, battery_actions,
                   on_battery, last_activity, last_activity_display, debounce, paused,
                   manually_paused, previous_brightness, current_block, panicked>>

\* update_lock_state: the lock state as reported from outside the cascade.
update_lock_state(locked) ==
    /\ UNCHANGED <<notify, sched, tasks, lock_notify, spawned_tasks>>
    /\ lock_state' = [lock_state EXCEPT !.is_locked = locked]
    /\ dispatched' = <<>>
    /\ clean' = FALSE
    /\ fired' = 0
    /\ UNCHANGED <<now, debounce_seconds, rest, default_actions, ac_actions, battery_actions,
                   on_battery, action_index, last_activity, last_activity_display,
                   debounce, paused, manually_paused, previous_brightness, current_block,
                   panicked, pinned>>

UpdateLockState == \E locked \in BOOLEAN : update_lock_state(locked)

\* ------------------------------------------------------------------ environment

\* The power-source signal changes.
power_source_changed(v) ==
    /\ UNCHANGED <<notify, sched, tasks, lock_notify, spawned_tasks>>
    /\ on_battery # v
    /\ on_battery' = v
    /\ dispatched' = <<>>
    /\ clean' = FALSE
    /\ fired' = 0
    /\ pinned' = FALSE
    /\ UNCHANGED <<now, debounce_seconds, rest, default_actions, ac_actions, battery_actions,
                   action_index, last_activity, last_activity_display, debounce, paused,
                   manually_paused, previous_brightness, lock_state, current_block,
                   panicked>>

PowerSourceChanged == \E v \in {"Some(true)", "Some(false)"} : power_source_changed(v)

\* One second passes.  The evaluation is late when time passes over a due action.
TickBelow(limit) ==
    /\ UNCHANGED <<notify, sched, tasks, lock_notify, spawned_tasks>>
    /\ now < limit
    /\ now' = now + 1
    /\ dispatched' = <<>>
    /\ clean' = (clean /\ ~WouldFire)
    /\ fired' = IF clean /\ ~WouldFire THEN fired ELSE 0
    /\ UNCHANGED pinned
    /\ UNCHANGED <<debounce_seconds, rest, default_actions, ac_actions, battery_actions,
                   on_battery, action_index, last_activity, last_activity_display,
                   debounce, paused, manually_paused, previous_brightness, lock_state,
                   current_block, panicked>>

\* Time within the horizon of the model.
Tick == TickBelow(MaxTime)

Next ==
    \/ CheckTimeouts
    \/ Reset
    \/ Pause
    \/ Resume
    \/ lock_ended
    \/ UpdateLockState
    \/ PowerSourceChanged
    \/ Tick

Spec == Init /\ [][Next]_vars

\* ------------------------------------------------------------------ properties

Active == ActionsOf(BlockName)

StrictlyIncreasing(actions) ==
    \A k \in 1..(Len(actions) - 1) : actions[k].timeout < actions[k + 1].timeout

RECURSIVE SumTimeouts(_, _)
SumTimeouts(actions, n) ==
    IF n = 0 THEN 0 ELSE actions[n].timeout + SumTimeouts(actions, n - 1)

\* The action at the cursor has its timeout elapsed (whether or not the
\* scheduler is paused, debounced or lock-suppressed).
CursorElapsed ==
    /\ Active # <<>>
    /\ Elapsed(At(Active, Min(action_index, Len(Active) - 1)), last_activity, now)

\* C1: in a run with no pause, debounce, reset or lock suppression, in which
\* check_timeouts is evaluated whenever an action is due, and for an active
\* set with strictly increasing timeouts, the k-th dispatch is action k and
\* happens at t0 + t1 + ... + tk, where t0 = last_activity.
C1_CascadeAccumulates ==
    (/\ clean
     /\ dispatched # <<>>
     /\ StrictlyIncreasing(Active)
     /\ fired <= Len(Active))
    => /\ dispatched = <<fired - 1>>
       /\ now = last_activity + SumTimeouts(Active, fired)

\* C1: dim(1), lock(2), suspend(3): the third dispatch is suspend, at t = 6.
C1_Witness ==
    /\ clean
    /\ fired = 3
    /\ dispatched = <<2>>
    /\ now = 6
    /\ At(Active, 2).timeout = 3

\* C2: once a firing has pinned the cursor to the last index, no step
\* dispatches an action until reset() is called.
C2_NoFiringAfterPin == [][pinned => dispatched' = <<>>]_vars

\* C3: reset() with the screen not locked and a first action that is not
\* instant leaves active_index = 0, whatever the cursor was.
C3_ResetRecomputesCursor ==
    [][(/\ reset
        /\ ~lock_state.is_locked
        /\ Active # <<>>
        /\ ~IsInstant(At(Active, 0)))
       => action_index' = 0]_vars

\* The state reset() is called in for C4: locked, with the cursor at the lock
\* action's index.
AtLockWhileLocked ==
    /\ lock_state.is_locked
    /\ LockIndex(Active) # None
    /\ action_index = LockIndex(Active)

\* What C4 says reset() leaves: the cursor one past the lock action, that
\* action (if there is one) stamped with now + debounce_seconds, post_advanced.
PostLockAdvance ==
    /\ action_index' = LockIndex(Active) + 1
    /\ lock_state'.post_advanced
    /\ LockIndex(Active) + 1 < Len(Active)
          => At(Active', LockIndex(Active) + 1).last_triggered = now + debounce_seconds

\* C4 as stated: reset() while locked with the cursor at the lock index
\* always advances past the lock action.
C4_Original == [][(reset /\ AtLockWhileLocked) => PostLockAdvance]_vars

\* C4 as amended: the same, provided the first action of the active set is
\* not an instant action.
C4_ResetAdvancesPastLock ==
    [][(reset /\ AtLockWhileLocked /\ ~IsInstant(At(Active, 0))) => PostLockAdvance]_vars

\* C4: debounce 1, lock at index 1 of three actions: after the reset the
\* cursor is 2 and actions[2] is stamped with the debounce deadline.
C4_Witness ==
    /\ lock_state.is_locked
    /\ lock_state.post_advanced
    /\ LockIndex(Active) = 1
    /\ Len(Active) = 3
    /\ action_index = 2
    /\ debounce_seconds = 1
    /\ debounce = now + 1
    /\ At(Active, 2).last_triggered = now + 1
    /\ At(Active, 1).last_triggered = None

\* C5: reset() while locked, for an active set with a LockScreen action (and
\* a first action that is not instant), leaves active_index = lock_index + 1
\* and post_advanced = true for every cursor value held before.
C5_ResetWhileLockedAnyCursor ==
    [][(/\ reset
        /\ lock_state.is_locked
        /\ LockIndex(Active) # None
        /\ ~IsInstant(At(Active, 0)))
       => (action_index' = LockIndex(Active) + 1 /\ lock_state'.post_advanced)]_vars

\* C6: while manually paused, pause(false), resume(false) and check_timeouts
\* leave manually_paused set, dispatch nothing and do not move the cursor.
C6_ManualPauseDominates ==
    [][(manually_paused /\ (pause(FALSE) \/ resume(FALSE) \/ CheckTimeouts))
       => (/\ manually_paused'
           /\ dispatched' = <<>>
           /\ action_index' = action_index)]_vars

\* C6: manually paused with the action at the cursor overdue.
C6_Witness ==
    /\ manually_paused
    /\ debounce = None
    /\ CursorElapsed
    /\ ~(At(Active, Min(action_index, Len(Active) - 1)).kind = "LockScreen")

\* C7: pause(true) yields manually_paused = true and paused = false.
C7_ManualPauseClearsAuto == [][pause(TRUE) => (manually_paused' /\ ~paused')]_vars

\* C7: a manual pause is in effect and the automatic flag is clear.
C7_Witness == manually_paused /\ ~paused /\ now > 0

\* C8: pause(false) and resume(false) change nothing when manually paused,
\* and otherwise change at most the paused flag.
C8_AutoPauseFrame ==
    [][(pause(FALSE) \/ resume(FALSE))
       => (/\ UNCHANGED <<manually_paused, action_index, last_activity, debounce,
                          default_actions, ac_actions, battery_actions>>
           /\ manually_paused => paused' = paused)]_vars

\* C8: automatically paused, with idle time accrued past the baseline and a
\* stamp held by an action.
C8_Witness ==
    /\ paused
    /\ ~manually_paused
    /\ now > last_activity
    /\ \E k \in 1..Len(Active) : Active[k].last_triggered # None

\* C9: resume(true) clears manually_paused and does not lift an automatic
\* pause that is in effect.
C9_ManualResume ==
    [][resume(TRUE) => (~manually_paused' /\ (paused => paused'))]_vars

\* C9: an automatic pause in effect with no manual pause.
C9_Witness == paused /\ ~manually_paused /\ debounce # None

\* C10: check_timeouts while paused or manually paused dispatches nothing and
\* leaves the cursor, the baseline, the debounce, the block, the lock state
\* and every stamp unchanged.
C10_PausedCheckIsNoop ==
    [][((paused \/ manually_paused) /\ CheckTimeouts)
       => (/\ dispatched' = <<>>
           /\ UNCHANGED <<action_index, last_activity, debounce, current_block,
                          lock_state, default_actions, ac_actions, battery_actions>>)]_vars

\* C10: automatically paused, the debounce deadline passed and the action at
\* the cursor overdue.
C10_Witness ==
    /\ paused
    /\ debounce # None
    /\ now >= debounce
    /\ CursorElapsed

\* ------------------------------------------------------------------ C11

\* The manager state a check_timeouts call can write.
ManagerFrame ==
    UNCHANGED <<default_actions, ac_actions, battery_actions, action_index,
                last_activity, last_activity_display, debounce, paused,
                manually_paused, previous_brightness, lock_state, current_block,
                notify, lock_notify, spawned_tasks>>

\* C11: no action is fired during the debounce window.  A reset at time r
\* sets the debounce deadline to r + debounce_seconds, the deadline stays
\* until a check at or after it, and every check_timeouts call before the
\* deadline dispatches nothing and changes no state.
C11_NoFiringInDebounce ==
    [][/\ reset => debounce' = now + debounce_seconds
       /\ (debounce # None /\ now < debounce /\ ~reset) => debounce' = debounce
       /\ (debounce # None /\ now < debounce /\ CheckTimeouts)
            => (dispatched' = <<>> /\ ManagerFrame)]_vars

\* A check inside the debounce window finds the cursor's action overdue.
C11_Witness ==
    /\ debounce # None
    /\ now < debounce
    /\ ~paused
    /\ ~manually_paused
    /\ Active # <<>>
    /\ CursorElapsed

\* ------------------------------------------------------------------ idle task

\* Duration::from_millis(50), rounded up to the unit of time
PollTicks == 1

\* max_sleep
MaxSleep == 60

\* The actions next_action_instant iterates over: all three sets.
AllActions == default_actions \o ac_actions \o battery_actions

\* next_action_instant: the earliest of last + timeout over every action of
\* every set, None while paused or with no action at all.
next_action_instant ==
    LET times == { LastRef(AllActions[k], last_activity) + AllActions[k].timeout :
                     k \in 1..Len(AllActions) }
    IN IF paused \/ manually_paused THEN None
       ELSE IF times = {} THEN None
       ELSE CHOOSE x \in times : \A y \in times : x <= y

\* SleepDeadline without the clamp to max_sleep.
SleepDeadlineUnclamped(instant, t) ==
    IF instant = None THEN t + MaxSleep
    ELSE IF instant <= t THEN t + PollTicks
    ELSE instant

\* The deadline the idle task sleeps until.
SleepDeadline(instant, t) ==
    IF instant = None THEN t + MaxSleep
    ELSE IF instant <= t THEN t + PollTicks
    ELSE IF instant - t > MaxSleep THEN t + MaxSleep
    ELSE instant

\* What a step of the idle task outside check_timeouts leaves alone.
IdleFrame ==
    UNCHANGED <<now, debounce_seconds, rest, default_actions, ac_actions, battery_actions,
                on_battery, action_index, last_activity, last_activity_display,
                debounce, paused, manually_paused, previous_brightness, lock_state,
                current_block, panicked, clean, fired, pinned, lock_notify,
                spawned_tasks>>

\* The task variables a step of the idle task out of its select leaves alone;
\* the wait on shutdown_flag it drops is no longer woken.
OtherTasks ==
    UNCHANGED <<idle_task_handle, lock_task_handle, shutdown_pc, watch_pc,
                watch_shutdown>>

\* Top of the loop: read next_action_instant and compute the deadline.
IdleRecalc ==
    /\ idle_pc = "top"
    /\ shutdown_pc # "signalled"
    /\ UNCHANGED tasks
    /\ idle_pc' = "select"
    /\ sleep_deadline' = SleepDeadline(next_action_instant, now)
    /\ dispatched' = <<>>
    /\ UNCHANGED notify
    /\ IdleFrame

\* IdleNotified with an evaluation of the cascade after the notification.
IdleNotifiedEvaluates ==
    /\ idle_pc = "select"
    /\ notify
    /\ notify' = FALSE
    /\ idle_pc' = "woken"
    /\ idle_shutdown' = FALSE
    /\ OtherTasks
    /\ dispatched' = <<>>
    /\ UNCHANGED sleep_deadline
    /\ IdleFrame

\* select: woken by notify, the loop continues without an evaluation.
IdleNotified ==
    /\ idle_pc = "select"
    /\ notify
    /\ notify' = FALSE
    /\ idle_pc' = "top"
    /\ idle_shutdown' = FALSE
    /\ OtherTasks
    /\ dispatched' = <<>>
    /\ UNCHANGED sleep_deadline
    /\ IdleFrame

\* select: the sleep reached its deadline.
IdleSleepElapsed ==
    /\ idle_pc = "select"
    /\ now >= sleep_deadline
    /\ idle_pc' = "woken"
    /\ idle_shutdown' = FALSE
    /\ OtherTasks
    /\ dispatched' = <<>>
    /\ UNCHANGED <<notify, sleep_deadline>>
    /\ IdleFrame

\* After the sleep: one check_timeouts unless paused.
IdleCheck ==
    /\ idle_pc = "woken"
    /\ shutdown_pc # "signalled"
    /\ UNCHANGED tasks
    /\ idle_pc' = "top"
    /\ UNCHANGED sleep_deadline
    /\ IF ~paused /\ ~manually_paused
       THEN \E captured \in {None} \cup (0..MaxLevel), launched \in BOOLEAN :
                check_timeouts(captured, launched)
       ELSE /\ dispatched' = <<>>
            /\ UNCHANGED notify
            /\ IdleFrame

\* Time passes only while the idle task sleeps with nothing to wake it.
IdleTick ==
    /\ idle_pc = "select"
    /\ ~notify
    /\ now < sleep_deadline
    /\ Tick

\* Configurations whose first timeout exceeds the debounce.
IdleConfigs ==
    { [default |-> <<Act("Dpms", 3)>>, ac |-> <<>>, battery |-> <<>>,
       lock_command |-> "Some"],
      [default |-> <<Act("Brightness", 2), Act("Suspend", 3)>>, ac |-> <<>>,
       battery |-> <<>>, lock_command |-> "Some"] }

InitIdle ==
    /\ now = 0
    /\ debounce_seconds \in 1..MaxDebounce
    /\ cfg = "Some"
    /\ media_playing = FALSE
    /\ instants_triggered = FALSE
    /\ timer = "None"
    /\ \E c \in IdleConfigs :
          /\ default_actions = c.default
          /\ ac_actions = c.ac
          /\ battery_actions = c.battery
          /\ lock_state = [is_locked |-> FALSE, post_advanced |-> FALSE,
                           pid |-> "None", command |-> c.lock_command]
    /\ on_battery = "None"
    /\ action_index = 0
    /\ last_activity = 0
    /\ last_activity_display = 0
    /\ debounce = None
    /\ paused = FALSE
    /\ manually_paused = FALSE
    /\ previous_brightness = None
    /\ current_block = "None"
    /\ notify = FALSE
    /\ idle_pc = "top"
    /\ sleep_deadline = None
    /\ lock_notify = FALSE
    /\ spawned_tasks = "empty"
    /\ idle_task_handle = "None"
    /\ lock_task_handle = "None"
    /\ shutdown_pc = "idle"
    /\ idle_shutdown = FALSE
    /\ watch_pc = "outer"
    /\ watch_shutdown = FALSE
    /\ panicked = FALSE
    /\ dispatched = <<>>
    /\ clean = TRUE
    /\ fired = 0
    /\ pinned = FALSE

\* The idle task with activity (reset) as its only environment.
NextIdle ==
    \/ IdleRecalc
    \/ IdleNotified
    \/ IdleSleepElapsed
    \/ IdleCheck
    \/ Reset
    \/ IdleTick

SpecIdle == InitIdle /\ [][NextIdle]_vars

\* ------------------------------------------------------------------ C12

\* C12: after a reset at time r (last_activity_display), with no pause and
\* no lock, the idle task fires the first action of the active set by
\* r + debounce_seconds + t1, up to the polling granularity: while the cursor
\* is on the first action and that action has not fired since the reset, the
\* time has not passed that deadline.
C12_FirstActionCountsFromDebounceEnd ==
    (/\ Active # <<>>
     /\ action_index = 0
     /\ At(Active, 0).last_triggered = None)
    => now <= last_activity_display + debounce_seconds + At(Active, 0).timeout
              + PollTicks

\* ------------------------------------------------------------------ C13

\* C13: reset sets last_activity to the time of the reset.
C13_ResetSetsLastActivity ==
    [][reset => last_activity' = now]_vars

\* ------------------------------------------------------------------ forced firing

\* The horizon of the runs with forced firing.
MaxTriggerTime == 3

TriggerTick == now < MaxTriggerTime /\ Tick

\* The manager with trigger_all_idle_actions among its callers, no pause and
\* no lock report from outside.
NextTrigger ==
    \/ CheckTimeouts
    \/ TriggerAllIdleActions
    \/ Reset
    \/ lock_ended
    \/ PowerSourceChanged
    \/ TriggerTick

SpecTrigger == Init /\ [][NextTrigger]_vars

\* ------------------------------------------------------------------ C14

\* Some dispatched index is a LockScreen action of `actions`.
LockDispatched(indices, actions) ==
    \E k \in 1..Len(indices) : At(actions, indices[k]).kind = "LockScreen"

\* C14: while is_locked is true neither check_timeouts nor
\* trigger_all_idle_actions dispatches a LockScreen action, and a
\* check_timeouts with the cursor on a LockScreen action dispatches nothing
\* and leaves the cursor where it is.
C14_LockSuppression ==
    [][/\ ((CheckTimeouts \/ TriggerAllIdleActions) /\ lock_state.is_locked)
            => ~LockDispatched(dispatched', Active)
       /\ (CheckTimeouts /\ AtLockWhileLocked)
            => (dispatched' = <<>> /\ action_index' = action_index)]_vars

\* trigger_all_idle_actions ran while locked and passed over the lock action.
C14_Witness ==
    /\ lock_state.is_locked
    /\ Len(Active) = 3
    /\ At(Active, 1).kind = "LockScreen"
    /\ dispatched = <<0, 2>>

\* ------------------------------------------------------------------ C15

\* C15: when the lock watcher finds the lock process gone it sets the cursor
\* to 0, is_locked to false, pid to None and post_advanced to false and
\* leaves a wake-up for the idle task, wherever the cursor was.
C15_LockEndResets ==
    [][lock_ended
       => (/\ action_index' = 0
           /\ lock_state'.is_locked = FALSE
           /\ lock_state'.pid = "None"
           /\ lock_state'.post_advanced = FALSE
           /\ notify')]_vars

\* The lock ended after the cascade had passed the lock action: the cursor
\* is back at 0 while the action after the lock still carries its stamp.
C15_Witness ==
    /\ action_index = 0
    /\ ~lock_state.is_locked
    /\ lock_state.pid = "None"
    /\ lock_state.command = "Some"
    /\ ~lock_state.post_advanced
    /\ notify
    /\ Len(Active) = 3
    /\ At(Active, 1).kind = "LockScreen"
    /\ At(Active, 2).last_triggered # None

\* ------------------------------------------------------------------ C16

\* C16: brightness is captured at most once per cycle.  Once
\* previous_brightness is set, no step changes it, whichever actions it
\* dispatches, except a reset, which clears it.
C16_BrightnessCapturedOnce ==
    [][previous_brightness # None
       => \/ previous_brightness' = previous_brightness
          \/ (reset /\ previous_brightness' = None)]_vars

\* A second dispatch of the Brightness action with no reset since the forced
\* firing at time 0: the level is held.
C16_Witness ==
    /\ previous_brightness # None
    /\ Len(Active) = 3
    /\ At(Active, 0).kind = "Brightness"
    /\ dispatched = <<0>>
    /\ At(Active, 0).last_triggered > 0
    /\ At(Active, 2).last_triggered = 0

\* ------------------------------------------------------------------ C17

\* C17: profiles are opt-in.  With the ac and battery sets both empty, reset
\* and an evaluating check_timeouts select the block `default`, and
\* trigger_all_idle_actions fires and stamps the default set, whatever the
\* power-source signal is.
C17_ProfilesOptIn ==
    [][(ac_actions = <<>> /\ battery_actions = <<>>)
       => (/\ (reset \/ (CheckTimeouts /\ ~Blocked(now))) => current_block' = "default"
           /\ (TriggerAllIdleActions /\ default_actions # <<>>)
                => default_actions' = StampAll(default_actions, now))]_vars

\* On battery with no profile configured, an action of `default` was dispatched.
C17_Witness ==
    /\ ac_actions = <<>>
    /\ battery_actions = <<>>
    /\ on_battery = "Some(true)"
    /\ current_block = "default"
    /\ dispatched # <<>>

\* ------------------------------------------------------------------ C18

\* A profile set is configured.
ProfilesConfigured == ac_actions # <<>> \/ battery_actions # <<>>

\* The step selects an active block for the cascade.
SelectsBlock == reset \/ (CheckTimeouts /\ ~Blocked(now))

\* C18 as stated: with a profile set configured, `default` is never the
\* block selected for cascading, whatever the power-source signal is.
C18_Original ==
    [][(ProfilesConfigured /\ SelectsBlock) => current_block' # "default"]_vars

\* C18: with a profile set configured and a power-source signal observed,
\* `default` is never the block selected for cascading, and
\* trigger_all_idle_actions leaves the default set alone.
C18_DefaultExcludedOnceObserved ==
    [][(ProfilesConfigured /\ on_battery # "None")
       => (/\ SelectsBlock => current_block' # "default"
           /\ TriggerAllIdleActions => default_actions' = default_actions)]_vars

\* On AC power with an ac set configured, an action of `ac` was dispatched.
C18_Witness ==
    /\ ac_actions # <<>>
    /\ default_actions # <<>>
    /\ on_battery = "Some(false)"
    /\ current_block = "ac"
    /\ dispatched # <<>>

\* ------------------------------------------------------------------ power source

\* Manager::update_power_source: reads the signal and returns on every arm.
update_power_source ==
    /\ dispatched' = <<>>
    /\ UNCHANGED <<now, debounce_seconds, rest, default_actions, ac_actions, battery_actions,
                   on_battery, action_index, last_activity, last_activity_display,
                   debounce, paused, manually_paused, previous_brightness, lock_state,
                   current_block, panicked, clean, fired, pinned, notify, sched, tasks,
                   lock_notify, spawned_tasks>>

\* The manager under a changing power source.
NextPower ==
    \/ CheckTimeouts
    \/ Reset
    \/ PowerSourceChanged
    \/ update_power_source
    \/ Tick

SpecPower == Init /\ [][NextPower]_vars

\* ------------------------------------------------------------------ C19

\* C19: after a power-source change the cascade of the newly active set
\* starts from its first action.  The evaluation that first selects a
\* non-empty set other than the one cascaded before finds no stamp in it from
\* earlier, and dispatches its first action or, dispatching nothing, leaves
\* the cursor on it.
C19_PowerChangeRestartsCascade ==
    [][(/\ CheckTimeouts
        /\ ~Blocked(now)
        /\ current_block # "None"
        /\ current_block # BlockName
        /\ Active # <<>>)
       => (/\ \A k \in 1..Len(Active) : Active[k].last_triggered = None
           /\ \/ dispatched' = <<0>>
              \/ (dispatched' = <<>> /\ action_index' = 0))]_vars

\* ------------------------------------------------------------------ C20

\* The indices of `actions` in configured order, without the LockScreen
\* actions met while locked: those of a set entered locked, and those after
\* an earlier LockScreen action of the set, whose dispatch locks.
ForcedOrder(actions, locked) ==
    LET Met(i) == ~(/\ actions[i + 1].kind = "LockScreen"
                    /\ \/ locked
                       \/ \E j \in 1..i : actions[j].kind = "LockScreen")
    IN SelectSeq([k \in 1..Len(actions) |-> k - 1], Met)

\* C20: trigger_all_idle_actions dispatches every action of the active set
\* once, in configured order, except LockScreen actions met while locked, then
\* every action of the set carries last_triggered = now and the cursor is the
\* last index; on an empty active set it dispatches nothing and changes no
\* manager state.
C20_ForcedFiring ==
    [][TriggerAllIdleActions
       => IF Active = <<>>
          THEN dispatched' = <<>> /\ ManagerFrame
          ELSE /\ dispatched' = ForcedOrder(Active, lock_state.is_locked)
               /\ Len(Active') = Len(Active)
               /\ \A k \in 1..Len(Active) :
                     Active'[k] = [Active[k] EXCEPT !.last_triggered = now]
               /\ action_index' = Len(Active) - 1]_vars

\* A forced firing of dim, lock, suspend from the unlocked state.
C20_Witness ==
    /\ dispatched = <<0, 1, 2>>
    /\ action_index = 2
    /\ lock_state.is_locked
    /\ \A k \in 1..Len(Active) : Active[k].last_triggered = now

\* ------------------------------------------------------------------ tasks and shutdown

\* The manager mutex is free: shutdown keeps it from its signal to its end.
MutexFree == shutdown_pc # "signalled"

\* What a step of the lock watcher or of shutdown leaves of the manager and
\* of the idle task's deadline.
TaskFrame ==
    UNCHANGED <<now, debounce_seconds, rest, default_actions, ac_actions, battery_actions,
                on_battery, last_activity, last_activity_display, debounce, paused,
                manually_paused, previous_brightness, current_block, panicked,
                clean, fired, pinned, sleep_deadline>>

\* The idle task's select: the shutdown notification arrived, the loop breaks.
IdleShutdown ==
    /\ idle_pc = "select"
    /\ idle_shutdown
    /\ idle_pc' = "done"
    /\ dispatched' = <<>>
    /\ UNCHANGED <<notify, sleep_deadline>>
    /\ UNCHANGED <<idle_task_handle, lock_task_handle, shutdown_pc, idle_shutdown,
                   watch_pc, watch_shutdown>>
    /\ IdleFrame

\* What a step of the lock watcher that writes no manager state leaves alone.
WatchFrame ==
    /\ dispatched' = <<>>
    /\ UNCHANGED <<action_index, lock_state, notify, idle_pc, spawned_tasks,
                   idle_task_handle, lock_task_handle, shutdown_pc, idle_shutdown>>
    /\ TaskFrame

\* The watcher takes the mutex and tests is_locked: it waits for the lock to
\* become active or goes on to supervise it.
WatchOuter ==
    /\ watch_pc = "outer"
    /\ MutexFree
    /\ watch_pc' = IF lock_state.is_locked THEN "snapshot" ELSE "idle_wait"
    /\ UNCHANGED <<lock_notify, watch_shutdown>>
    /\ WatchFrame

\* Waiting for the lock: a lock notification sends the watcher back to the test.
WatchIdleNotified ==
    /\ watch_pc = "idle_wait"
    /\ lock_notify
    /\ lock_notify' = FALSE
    /\ watch_shutdown' = FALSE
    /\ watch_pc' = "outer"
    /\ WatchFrame

\* Waiting (for the lock or between two probes): the shutdown notification
\* arrived, the watcher returns.
WatchShutdown ==
    /\ watch_pc \in {"idle_wait", "poll_wait"}
    /\ watch_shutdown
    /\ watch_pc' = "done"
    /\ UNCHANGED <<lock_notify, watch_shutdown>>
    /\ WatchFrame

\* Supervising: the snapshot of command and is_locked under the mutex.
WatchSnapshot ==
    /\ watch_pc = "snapshot"
    /\ MutexFree
    /\ watch_pc' = IF lock_state.is_locked THEN "probe" ELSE "outer"
    /\ UNCHANGED <<lock_notify, watch_shutdown>>
    /\ WatchFrame

\* WatchProbe that probes the process whether or not a command is known.
WatchProbeAnyCommand ==
    /\ watch_pc = "probe"
    /\ \E still_active \in BOOLEAN :
          watch_pc' = IF still_active THEN "poll_wait" ELSE "write"
    /\ UNCHANGED <<lock_notify, watch_shutdown>>
    /\ WatchFrame

\* Supervising: is_process_running for a known command, else half a second
\* of sleep that counts as still active.
WatchProbe ==
    /\ watch_pc = "probe"
    /\ \E still_active \in BOOLEAN :
          /\ lock_state.command = "None" => still_active
          /\ watch_pc' = IF still_active THEN "poll_wait" ELSE "write"
    /\ UNCHANGED <<lock_notify, watch_shutdown>>
    /\ WatchFrame

\* Supervising: the lock process is gone, the watcher resets the lock state
\* and the cursor and wakes the idle task.
WatchWrite ==
    /\ watch_pc = "write"
    /\ MutexFree
    /\ watch_pc' = "outer"
    /\ lock_state' = [lock_state EXCEPT !.pid = "None", !.post_advanced = FALSE,
                                        !.is_locked = FALSE]
    /\ action_index' = 0
    /\ notify' = TRUE
    /\ dispatched' = <<>>
    /\ UNCHANGED <<lock_notify, watch_shutdown, idle_pc, spawned_tasks,
                   idle_task_handle, lock_task_handle, shutdown_pc, idle_shutdown>>
    /\ TaskFrame

\* Supervising: the wait between two probes ends by a lock notification or
\* by its half second of sleep.
WatchPollElapsed ==
    /\ watch_pc = "poll_wait"
    /\ watch_pc' = "snapshot"
    /\ \E by_notify \in BOOLEAN :
          /\ by_notify => lock_notify
          /\ lock_notify' = (lock_notify /\ ~by_notify)
    /\ watch_shutdown' = FALSE
    /\ WatchFrame

\* shutdown, first half: notify_waiters on shutdown_flag wakes the tasks that
\* are waiting on it at this moment; no permit is kept for the others.
ShutdownSignal ==
    /\ shutdown_pc = "idle"
    /\ shutdown_pc' = "signalled"
    /\ idle_shutdown' = (idle_pc = "select")
    /\ watch_shutdown' = (watch_pc \in {"idle_wait", "poll_wait"})
    /\ dispatched' = <<>>
    /\ UNCHANGED <<action_index, lock_state, notify, idle_pc, spawned_tasks,
                   idle_task_handle, lock_task_handle, watch_pc, lock_notify>>
    /\ TaskFrame

\* Aborted with an abort() that cancels nothing.
AbortedNever(handle, pc) == pc

\* A task after abort() of its handle, if one was held.
Aborted(handle, pc) == IF handle = "Some" /\ pc # "done" THEN "aborted" ELSE pc

\* shutdown, second half, after the grace period: take and abort the handles
\* of the idle task and the lock watcher, drain and abort the registry.
ShutdownAbort ==
    /\ shutdown_pc = "signalled"
    /\ shutdown_pc' = "done"
    /\ idle_pc' = Aborted(idle_task_handle, idle_pc)
    /\ watch_pc' = Aborted(lock_task_handle, watch_pc)
    /\ idle_task_handle' = "None"
    /\ lock_task_handle' = "None"
    /\ spawned_tasks' = "empty"
    /\ dispatched' = <<>>
    /\ UNCHANGED <<action_index, lock_state, notify, idle_shutdown, watch_shutdown,
                   lock_notify>>
    /\ TaskFrame

\* A spawned command task runs to its end; its handle stays in the registry.
CommandFinishes ==
    /\ spawned_tasks = "running"
    /\ spawned_tasks' = "finished"
    /\ dispatched' = <<>>
    /\ UNCHANGED <<action_index, lock_state, notify, idle_pc, lock_notify, tasks>>
    /\ TaskFrame

\* Time passes while the idle task sleeps, or once it has ended.
TasksTick ==
    \/ IdleTick
    \/ (idle_pc \in {"done", "aborted"} /\ Tick)

\* The horizon of the runs with the tasks.
MaxTasksTime == 3

\* The daemon has spawned the idle task and the lock watcher and stored their
\* handles in the manager.
InitTasks ==
    /\ now = 0
    /\ debounce_seconds \in 1..MaxDebounce
    /\ cfg = "Some"
    /\ media_playing = FALSE
    /\ instants_triggered = FALSE
    /\ timer = "None"
    /\ \E c \in Configs :
          /\ default_actions = c.default
          /\ ac_actions = c.ac
          /\ battery_actions = c.battery
          /\ lock_state = [is_locked |-> FALSE, post_advanced |-> FALSE,
                           pid |-> "None", command |-> c.lock_command]
    /\ on_battery = "None"
    /\ action_index = 0
    /\ last_activity = 0
    /\ last_activity_display = 0
    /\ debounce = None
    /\ paused = FALSE
    /\ manually_paused = FALSE
    /\ previous_brightness = None
    /\ current_block = "None"
    /\ notify = FALSE
    /\ idle_pc = "top"
    /\ sleep_deadline = None
    /\ lock_notify = FALSE
    /\ spawned_tasks = "empty"
    /\ idle_task_handle = "Some"
    /\ lock_task_handle = "Some"
    /\ shutdown_pc = "idle"
    /\ idle_shutdown = FALSE
    /\ watch_pc = "outer"
    /\ watch_shutdown = FALSE
    /\ panicked = FALSE
    /\ dispatched = <<>>
    /\ clean = TRUE
    /\ fired = 0
    /\ pinned = FALSE

\* The idle task, the lock watcher and shutdown, with activity and pause
\* from outside.
NextTasks ==
    \/ IdleRecalc
    \/ IdleNotified
    \/ IdleSleepElapsed
    \/ IdleCheck
    \/ IdleShutdown
    \/ WatchOuter
    \/ WatchIdleNotified
    \/ WatchShutdown
    \/ WatchSnapshot
    \/ WatchProbe
    \/ WatchWrite
    \/ WatchPollElapsed
    \/ ShutdownSignal
    \/ ShutdownAbort
    \/ CommandFinishes
    \/ (MutexFree /\ Reset)
    \/ (MutexFree /\ Pause)
    \/ (MutexFree /\ Resume)
    \/ (now < MaxTasksTime /\ TasksTick)

SpecTasks == InitTasks /\ [][NextTasks]_vars

\* ------------------------------------------------------------------ C21

\* C21: the dispatch of a LockScreen action leaves is_locked true and a
\* permit in lock_notify whether or not the launch succeeded, and in no state
\* the lock watcher can read is a launched lock command (a pid) held together
\* with is_locked = false.
C21_LockedBeforeLaunch ==
    [][/\ LockDispatched(dispatched', Active)
            => (lock_state'.is_locked /\ lock_notify')
       /\ lock_state'.pid = "Some" => lock_state'.is_locked]_vars

\* A LockScreen action was just dispatched and launched while the watcher
\* waits for the lock.
C21_Witness ==
    /\ Active # <<>>
    /\ LockDispatched(dispatched, Active)
    /\ lock_state.pid = "Some"
    /\ lock_state.is_locked
    /\ lock_notify
    /\ watch_pc = "idle_wait"

\* ------------------------------------------------------------------ C22

\* C22: a launch failure does not undo the firing.  After a check_timeouts
\* that dispatches an action whose command fails to launch, the action is
\* stamped with now, the cursor has moved to the next action (or stays on
\* the last) and that action is stamped too, as after a successful launch.
C22_LaunchFailureKeepsFiring ==
    [][((\E captured \in {None} \cup (0..MaxLevel) : check_timeouts(captured, FALSE))
        /\ dispatched' # <<>>)
       => LET index == dispatched'[1]
          IN /\ At(Active', index).last_triggered = now
             /\ action_index' = Min(action_index + 1, Len(Active) - 1)
             /\ action_index + 1 < Len(Active)
                  => At(Active', action_index + 1).last_triggered = now]_vars

\* The lock command failed to launch (locked with no pid) and the action
\* after the lock action has just fired.
C22_Witness ==
    /\ lock_state.is_locked
    /\ lock_state.pid = "None"
    /\ Len(Active) = 3
    /\ At(Active, 1).kind = "LockScreen"
    /\ dispatched = <<2>>

\* ------------------------------------------------------------------ C23

\* C23: after shutdown has returned, the handles of the idle task and of the
\* lock watcher are None, the registry of command tasks is empty, and
\* neither task nor any command task takes a further step.
C23_ShutdownCancelsTasks ==
    [][shutdown_pc = "done"
       => (/\ idle_task_handle = "None"
           /\ lock_task_handle = "None"
           /\ spawned_tasks = "empty"
           /\ UNCHANGED <<idle_pc, watch_pc, spawned_tasks>>
           /\ dispatched' = <<>>)]_vars

\* shutdown has returned and had to cancel both tasks, and time went on.
C23_Witness ==
    /\ shutdown_pc = "done"
    /\ idle_pc = "aborted"
    /\ watch_pc = "aborted"
    /\ now > 0

\* ------------------------------------------------------------------ C24

\* C24: the shutdown signal is never lost.  Once shutdown has sent it and
\* until shutdown returns, the idle task and the lock watcher have each
\* either terminated on it or hold it pending in their select, whatever they
\* were doing when it was sent.
C24_SignalNeverLost ==
    shutdown_pc = "signalled"
        => /\ idle_pc = "done" \/ (idle_pc = "select" /\ idle_shutdown)
           /\ watch_pc = "done"
                \/ (watch_pc \in {"idle_wait", "poll_wait"} /\ watch_shutdown)

\* ------------------------------------------------------------------ C25

\* C25: each iteration of the idle task ends in exactly one of three ways.
\* The task leaves its select, unless cancelled there, by the elapsed sleep
\* (the deadline is reached, nothing else changes), by the wake notification
\* (the permit is consumed, the loop is back at its top with no evaluation)
\* or by the shutdown notification (the task is done with no evaluation).
\* After the elapsed sleep it makes one check_timeouts call if not paused and
\* none if paused, and is back at the top; from the top it only recomputes
\* the deadline.  Actions are dispatched by no other step of the task.
C25_IterationEndsOneWay ==
    [][/\ (idle_pc = "select" /\ idle_pc' \notin {"select", "aborted"})
            => /\ dispatched' = <<>>
               /\ IdleFrame
               /\ \/ idle_pc' = "woken" /\ now >= sleep_deadline /\ UNCHANGED notify
                  \/ idle_pc' = "top" /\ notify /\ ~notify'
                  \/ idle_pc' = "done" /\ idle_shutdown /\ UNCHANGED notify
       /\ (idle_pc = "woken" /\ idle_pc' \notin {"woken", "aborted"})
            => /\ idle_pc' = "top"
               /\ IF paused \/ manually_paused
                  THEN dispatched' = <<>> /\ IdleFrame /\ UNCHANGED notify
                  ELSE \E captured \in {None} \cup (0..MaxLevel), launched \in BOOLEAN :
                           check_timeouts(captured, launched)
       /\ (idle_pc = "top" /\ idle_pc' \notin {"top", "aborted"})
            => /\ idle_pc' = "select"
               /\ sleep_deadline' = SleepDeadline(next_action_instant, now)
               /\ dispatched' = <<>>
       /\ dispatched' # <<>>
            => /\ idle_pc = "woken"
               /\ idle_pc' = "top"
               /\ Len(dispatched') = 1]_vars

\* The task has fired an action after an elapsed sleep and later terminated
\* on the shutdown notification.
C25_Witness ==
    /\ idle_pc = "done"
    /\ fired > 0
    /\ shutdown_pc = "signalled"

\* ------------------------------------------------------------------ C26

\* C26: no call of reset, check_timeouts or trigger_all_idle_actions panics,
\* for every combination of action sets and power-source signal, an empty
\* selected block and a cursor past the end included.
C26_NeverPanics == panicked = FALSE

\* ------------------------------------------------------------------ C27

\* C27: an instant action is never fired by the cascade.  No check_timeouts
\* call dispatches an action whose timeout is 0, whatever the cursor.
C27_InstantNeverFiredByCascade ==
    [][CheckTimeouts
       => \A k \in 1..Len(dispatched') : At(Active, dispatched'[k]).timeout # 0]_vars

\* ------------------------------------------------------------------ C28

\* C28: every state change that affects scheduling wakes the idle task.
\* A reset that returns, and a pause or resume that changes a pause flag,
\* leaves a permit in notify.
C28_StateChangeWakes ==
    [][/\ (reset /\ ~panicked') => notify'
       /\ ((Pause \/ Resume)
             /\ <<paused, manually_paused>>' # <<paused, manually_paused>>)
            => notify']_vars

\* ------------------------------------------------------------------ C29

\* C29: each check_timeouts call dispatches at most one action, the one at
\* min(action_index, len - 1) of the active set, and only when elapsed >=
\* timeout for it.  On firing it stamps that action with now and advances
\* the cursor by one, or pins it to the last index when the advanced cursor
\* would leave the set; it stamps the action at the advanced cursor with now
\* when that cursor is in bounds.  When nothing fires, cursor and stamps are
\* unchanged.
C29_OneFiringPerCheck ==
    [][CheckTimeouts
       => LET index == Min(action_index, Len(Active) - 1)
          IN /\ Len(dispatched') <= 1
             /\ dispatched' # <<>>
                  => /\ Active # <<>>
                     /\ dispatched' = <<index>>
                     /\ now - LastRef(At(Active, index), last_activity')
                            >= At(Active, index).timeout
                     /\ At(Active', index).last_triggered = now
                     /\ action_index' = IF action_index + 1 < Len(Active)
                                        THEN action_index + 1
                                        ELSE Len(Active) - 1
                     /\ action_index + 1 < Len(Active)
                          => At(Active', action_index + 1).last_triggered = now
             /\ dispatched' = <<>>
                  => UNCHANGED <<action_index, default_actions, ac_actions,
                                 battery_actions>>]_vars

\* The last action of a set of several has just fired and the cursor is
\* pinned to it.
C29_Witness ==
    /\ Len(Active) > 1
    /\ dispatched = <<Len(Active) - 1>>
    /\ action_index = Len(Active) - 1
    /\ pinned

\* C29 as stated: on firing the cursor advances by exactly one and the action
\* at the new cursor is stamped with now if the new cursor is in bounds.
C29_Original ==
    [][(CheckTimeouts /\ dispatched' # <<>>)
       => /\ dispatched' = <<Min(action_index, Len(Active) - 1)>>
          /\ action_index' = action_index + 1
          /\ action_index' < Len(Active)
               => At(Active', action_index').last_triggered = now]_vars

\* ------------------------------------------------------------------ C30

\* C30: cursor bounds.  After every step action_index is at most the length
\* of the longest action set; after a check_timeouts that fires and after a
\* trigger_all_idle_actions on a non-empty set it is a valid index of the
\* active set, after a lock-watcher reset it is 0, and a reset leaves it
\* where it was or one past the lock action, which is at most the length of
\* the active set.  (Where it is past the last index, check_timeouts reads
\* the action at min(action_index, len - 1).)
C30_CursorBounded ==
    [][LET lengths == {Len(default_actions), Len(ac_actions), Len(battery_actions)}
       IN /\ action_index' >= 0
          /\ \E longest \in lengths : action_index' <= longest
          /\ (CheckTimeouts /\ dispatched' # <<>>) => action_index' < Len(Active')
          /\ (TriggerAllIdleActions /\ Active # <<>>)
               => action_index' = Len(Active') - 1
          /\ lock_ended => action_index' = 0
          /\ reset => \/ action_index' = action_index
                      \/ /\ lock_state.is_locked
                         /\ action_index' <= Len(Active')
                         /\ At(Active', action_index' - 1).kind = "LockScreen"]_vars

\* A reset while locked has moved the cursor past the lock action, the last
\* of the active set: the cursor equals the length of the set.
C30_Witness ==
    /\ Active # <<>>
    /\ lock_state.is_locked
    /\ lock_state.post_advanced
    /\ action_index = Len(Active)

\* C30 as stated: whenever the active set is non-empty, action_index is a
\* valid index into it.
C30_Original == Active # <<>> => action_index < Len(Active)

\* ------------------------------------------------------------------ C31

\* The manager as constructed, with or without a configuration in state.cfg.
InitCfg ==
    /\ now = 0
    /\ debounce_seconds \in 1..MaxDebounce
    /\ cfg \in {"None", "Some"}
    /\ media_playing = FALSE
    /\ instants_triggered = FALSE
    /\ timer = "None"
    /\ \E c \in Configs :
          /\ default_actions = c.default
          /\ ac_actions = c.ac
          /\ battery_actions = c.battery
          /\ lock_state = [is_locked |-> FALSE, post_advanced |-> FALSE,
                           pid |-> "None", command |-> c.lock_command]
    /\ on_battery = "None"
    /\ action_index = 0
    /\ last_activity = 0
    /\ last_activity_display = 0
    /\ debounce = None
    /\ paused = FALSE
    /\ manually_paused = FALSE
    /\ previous_brightness = None
    /\ current_block = "None"
    /\ notify = FALSE
    /\ idle_pc = "top"
    /\ sleep_deadline = None
    /\ lock_notify = FALSE
    /\ spawned_tasks = "empty"
    /\ idle_task_handle = "None"
    /\ lock_task_handle = "None"
    /\ shutdown_pc = "idle"
    /\ idle_shutdown = FALSE
    /\ watch_pc = "outer"
    /\ watch_shutdown = FALSE
    /\ panicked = FALSE
    /\ dispatched = <<>>
    /\ clean = TRUE
    /\ fired = 0
    /\ pinned = FALSE

\* The cascade, activity and lock reports from outside, with and without a
\* configuration.
NextCfg ==
    \/ CheckTimeouts
    \/ Reset
    \/ UpdateLockState
    \/ TriggerTick

SpecCfg == InitCfg /\ [][NextCfg]_vars

MaxSleepTime == 62

\* Single actions due within max_sleep, exactly max_sleep ahead and beyond it.
SleepConfigs ==
    { [default |-> <<Act("Dpms", t)>>, ac |-> <<>>, battery |-> <<>>,
       lock_command |-> "Some"] : t \in {1, MaxSleep, MaxSleep + 1} }

InitSleep ==
    /\ now = 0
    /\ debounce_seconds \in 1..MaxDebounce
    /\ cfg = "Some"
    /\ media_playing = FALSE
    /\ instants_triggered = FALSE
    /\ timer = "None"
    /\ \E c \in SleepConfigs :
          /\ default_actions = c.default
          /\ ac_actions = c.ac
          /\ battery_actions = c.battery
          /\ lock_state = [is_locked |-> FALSE, post_advanced |-> FALSE,
                           pid |-> "None", command |-> c.lock_command]
    /\ on_battery = "None"
    /\ action_index = 0
    /\ last_activity = 0
    /\ last_activity_display = 0
    /\ debounce = None
    /\ paused = FALSE
    /\ manually_paused = FALSE
    /\ previous_brightness = None
    /\ current_block = "None"
    /\ notify = FALSE
    /\ idle_pc = "top"
    /\ sleep_deadline = None
    /\ lock_notify = FALSE
    /\ spawned_tasks = "empty"
    /\ idle_task_handle = "None"
    /\ lock_task_handle = "None"
    /\ shutdown_pc = "idle"
    /\ idle_shutdown = FALSE
    /\ watch_pc = "outer"
    /\ watch_shutdown = FALSE
    /\ panicked = FALSE
    /\ dispatched = <<>>
    /\ clean = TRUE
    /\ fired = 0
    /\ pinned = FALSE

\* Time passes while the idle task sleeps.
SleepTick ==
    /\ idle_pc = "select"
    /\ now < sleep_deadline
    /\ TickBelow(MaxSleepTime)

\* The idle task with pause and resume, which do not wake it, as its only
\* environment.
NextSleep ==
    \/ IdleRecalc
    \/ IdleSleepElapsed
    \/ IdleCheck
    \/ Pause
    \/ Resume
    \/ SleepTick

SpecSleep == InitSleep /\ [][NextSleep]_vars

\* C32: the idle task never sleeps more than max_sleep.  The deadline it
\* computes is now + 50 ms when next_action_instant is at or before now, that
\* instant when it is at most max_sleep ahead, and now + max_sleep when it
\* is further ahead or None; while the task sleeps the deadline is at most
\* max_sleep away, the sleep ends at the deadline, and the task then calls
\* check_timeouts if the manager is not paused, so a resume that did not
\* wake it is evaluated within max_sleep.
C32_SleepAtMostMaxSleep ==
    [][/\ (idle_pc = "top" /\ idle_pc' = "select")
            => sleep_deadline' =
                  CASE next_action_instant = None -> now + MaxSleep
                    [] next_action_instant # None /\ next_action_instant <= now
                          -> now + PollTicks
                    [] next_action_instant # None /\ next_action_instant > now
                       /\ next_action_instant - now <= MaxSleep
                          -> next_action_instant
                    [] OTHER -> now + MaxSleep
       /\ idle_pc' = "select"
            => (now' <= sleep_deadline' /\ sleep_deadline' - now' <= MaxSleep)
       /\ idle_pc' = "woken" => now' = sleep_deadline'
       /\ (idle_pc = "woken" /\ idle_pc' = "top" /\ ~paused /\ ~manually_paused)
            => \E captured \in {None} \cup (0..MaxLevel), launched \in BOOLEAN :
                  check_timeouts(captured, launched)]_vars

\* The sleep on the deadline computed while paused has ended after a whole
\* max_sleep: the resume did not wake the task, and the action due after 1 s,
\* never fired, is about to be evaluated.
C32_Witness ==
    /\ idle_pc = "woken"
    /\ now = MaxSleep
    /\ sleep_deadline = MaxSleep
    /\ ~paused
    /\ ~manually_paused
    /\ At(default_actions, 0).timeout = 1
    /\ At(default_actions, 0).last_triggered = None

\* ------------------------------------------------------------------ C33

\* C33: the manager mutex is not held while a command is launched.  A step
\* of the idle task is what it does between taking the mutex and releasing
\* it; the step in which check_timeouts stamps an action and moves the
\* cursor does not contain the launch: it records no pid of a lock command
\* and registers no command task, these come in a later step, after steps of
\* the other tasks were possible.
C33_LaunchOutsideMutex ==
    [][(idle_pc = "woken" /\ idle_pc' = "top" /\ dispatched' # <<>>)
       => /\ lock_state'.pid = lock_state.pid
          /\ spawned_tasks' = spawned_tasks]_vars

\* ------------------------------------------------------------------ C34

\* C34: no holder of the manager mutex waits on a timer or a notification
\* while holding it.  Every step of a task is the whole of what it does under
\* the mutex, so in every state between two steps the mutex is free, and no
\* task that needs the mutex (the idle task before its recalculation or its
\* check, the lock watcher before its test, snapshot or write) is kept from
\* it by a holder that sleeps.
C34_NoWaitHoldingMutex ==
    /\ MutexFree
    /\ ~(shutdown_pc = "signalled"
         /\ (idle_pc \in {"top", "woken"} \/ watch_pc \in {"outer", "snapshot", "write"}))

\* ------------------------------------------------------------------ C35

\* The tasks with the scheduling of the runtime: a step of the lock watcher
\* that stays possible is eventually taken.
SpecTasksLive ==
    /\ InitTasks
    /\ [][NextTasks]_vars
    /\ WF_vars(WatchOuter)
    /\ WF_vars(WatchIdleNotified)
    /\ WF_vars(WatchSnapshot)
    /\ WF_vars(WatchProbe)
    /\ WF_vars(WatchWrite)
    /\ WF_vars(WatchPollElapsed)

\* C35: lock supervision liveness.  Whenever the lock is active and the
\* lock watcher is in its idle part (testing is_locked or waiting for the
\* lock notification), it eventually supervises the lock; and once it has
\* found the lock command's process gone, is_locked eventually becomes
\* false; both unless shutdown intervenes.
C35_LockSupervised ==
    /\ (lock_state.is_locked /\ watch_pc \in {"outer", "idle_wait"})
          ~> (watch_pc \in {"snapshot", "probe", "poll_wait", "write"}
              \/ shutdown_pc # "idle")
    /\ (watch_pc = "write") ~> (~lock_state.is_locked \/ shutdown_pc # "idle")

\* The watcher has been woken from its wait by the permit a lock dispatch
\* left in lock_notify, and is about to find the lock active.
C35_Witness ==
    /\ watch_pc = "outer"
    /\ lock_state.is_locked
    /\ lock_state.pid = "Some"
    /\ ~lock_notify
    /\ shutdown_pc = "idle"

\* ------------------------------------------------------------------ C36

\* C36: with no lock command identity recorded, the lock watcher takes the
\* lock as still active on every poll: none of its steps changes the lock
\* state or the cursor, and it never comes to the write that ends the lock.
C36_UnknownCommandStaysLocked ==
    [][lock_state.command = "None"
       => /\ watch_pc' # "write"
          /\ (WatchOuter \/ WatchIdleNotified \/ WatchShutdown \/ WatchSnapshot
                \/ WatchProbe \/ WatchWrite \/ WatchPollElapsed)
               => UNCHANGED <<lock_state, action_index>>]_vars

\* The watcher, without a command identity, is between two polls of a lock
\* that has been active for a while.
C36_Witness ==
    /\ lock_state.command = "None"
    /\ lock_state.is_locked
    /\ watch_pc = "poll_wait"
    /\ dispatched = <<>>
    /\ now = MaxTasksTime

\* ------------------------------------------------------------------ C37

\* The cascade with pause, resume and toggle_state from outside.
NextPause ==
    \/ Pause
    \/ Resume
    \/ ToggleState
    \/ CheckTimeouts
    \/ TriggerTick

SpecPause == Init /\ [][NextPause]_vars

\* C37: after any sequence of pause, resume and toggle_state calls, paused
\* and manually_paused are never both true.
C37_NotBothPaused == ~(paused /\ manually_paused)

\* A manual pause is in effect, taken after the cascade had moved on.
C37_Witness ==
    /\ manually_paused
    /\ ~paused
    /\ action_index > 0
    /\ now = MaxTriggerTime

\* ------------------------------------------------------------------ C38

\* The media monitor finds a player playing that it had not seen playing
\* (at its start or on a PropertiesChanged signal): the automatic pause.
MediaPlaybackStarts ==
    /\ ~media_playing
    /\ pause(FALSE)
    /\ media_playing' = TRUE

\* The media monitor finds no player playing any more: the automatic resume.
MediaPlaybackStops ==
    /\ media_playing
    /\ resume(FALSE)
    /\ media_playing' = FALSE

\* The cascade with the media monitor and manual pause and resume requests.
NextMedia ==
    \/ MediaPlaybackStarts
    \/ MediaPlaybackStops
    \/ ToggleState
    \/ CheckTimeouts
    \/ TriggerTick

SpecMedia == Init /\ [][NextMedia]_vars

\* C38: media inhibition is never lost.  Whenever the monitor's
\* media_playing flag is true the manager is paused or manually paused.
C38_MediaInhibits == media_playing => (paused \/ manually_paused)

\* ------------------------------------------------------------------ C39

\* state.instant_actions: the timeout-0 actions of the configuration.
\* run_action reads only an action's kind and command, never its stamp.
instant_actions ==
    SelectSeq(default_actions \o ac_actions \o battery_actions, IsInstant)

\* The dispatch loop of trigger_instant_actions from position k on: run_action
\* on every action of the list, in order.
RECURSIVE RunEach(_, _, _, _, _, _, _)
RunEach(actions, k, pb, ls, done, captured, launched) ==
    IF k >= Len(actions)
    THEN [pb |-> pb, ls |-> ls, dispatched |-> done]
    ELSE RunEach(actions, k + 1,
                 BrightnessAfter(At(actions, k), pb, captured),
                 LockStateAfter(At(actions, k), ls, launched),
                 Append(done, k), captured, launched)

\* trigger_instant_actions that neither tests nor sets instants_triggered.
trigger_instant_actionsUnflagged(captured, launched) ==
    LET r == RunEach(instant_actions, 0, previous_brightness, lock_state, <<>>,
                     captured, launched)
    IN /\ previous_brightness' = r.pb
       /\ lock_state' = r.ls
       /\ dispatched' = r.dispatched
       /\ lock_notify' = LockNotifyAfter(dispatched', instant_actions, lock_notify)
       /\ spawned_tasks' = SpawnedAfter(dispatched', instant_actions, spawned_tasks)
       /\ clean' = FALSE
       /\ fired' = 0
       /\ UNCHANGED <<now, debounce_seconds, cfg, media_playing, instants_triggered, timer,
                      default_actions, ac_actions,
                      battery_actions, on_battery, action_index, last_activity,
                      last_activity_display, debounce, paused, manually_paused,
                      current_block, panicked, pinned, notify>>

\* Manager::trigger_instant_actions; dispatched' holds indices into
\* instant_actions.
trigger_instant_actions(captured, launched) ==
    IF instants_triggered
    THEN /\ dispatched' = <<>>
         /\ UNCHANGED <<now, debounce_seconds, rest, default_actions, ac_actions,
                        battery_actions, on_battery, action_index, last_activity,
                        last_activity_display, debounce, paused, manually_paused,
                        previous_brightness, lock_state, current_block, panicked,
                        clean, fired, pinned, notify, lock_notify, spawned_tasks>>
    ELSE LET r == RunEach(instant_actions, 0, previous_brightness, lock_state, <<>>,
                          captured, launched)
         IN /\ previous_brightness' = r.pb
            /\ lock_state' = r.ls
            /\ dispatched' = r.dispatched
            /\ lock_notify' = LockNotifyAfter(dispatched', instant_actions, lock_notify)
            /\ spawned_tasks' = SpawnedAfter(dispatched', instant_actions, spawned_tasks)
            /\ instants_triggered' = TRUE
            /\ clean' = FALSE
            /\ fired' = 0
            /\ UNCHANGED <<now, debounce_seconds, cfg, media_playing, timer,
                           default_actions, ac_actions,
                           battery_actions, on_battery, action_index, last_activity,
                           last_activity_display, debounce, paused, manually_paused,
                           current_block, panicked, pinned, notify>>

TriggerInstantActions ==
    \E captured \in {None} \cup (0..MaxLevel), launched \in BOOLEAN :
        trigger_instant_actions(captured, launched) /\ UNCHANGED <<sched, tasks>>

\* Manager::reset_instant_actions
reset_instant_actions ==
    /\ instants_triggered' = FALSE
    /\ dispatched' = <<>>
    /\ UNCHANGED <<now, debounce_seconds, cfg, media_playing, timer, default_actions, ac_actions,
                   battery_actions, on_battery, action_index, last_activity,
                   last_activity_display, debounce, paused, manually_paused,
                   previous_brightness, lock_state, current_block, panicked,
                   clean, fired, pinned, notify, lock_notify, spawned_tasks>>

ResetInstantActions == reset_instant_actions /\ UNCHANGED <<sched, tasks>>

\* Configurations with instant actions of several kinds, in one set and
\* spread over two.
InstantConfigs ==
    { [default |-> <<Act("Brightness", 0), Act("LockScreen", 0), Act("Custom", 1)>>,
       ac |-> <<>>, battery |-> <<>>, lock_command |-> "Some"],
      [default |-> <<Act("Custom", 0), Act("LockScreen", 1)>>,
       ac |-> <<>>, battery |-> <<Act("Dpms", 0)>>, lock_command |-> "None"],
      [default |-> <<Act("Custom", 1), Act("Suspend", 2)>>,
       ac |-> <<>>, battery |-> <<>>, lock_command |-> "Some"] }

\* The manager as constructed from a configuration with instant actions.
InitInstant ==
    /\ now = 0
    /\ debounce_seconds \in 1..MaxDebounce
    /\ cfg = "Some"
    /\ media_playing = FALSE
    /\ instants_triggered = FALSE
    /\ timer = "None"
    /\ \E c \in InstantConfigs :
          /\ default_actions = c.default
          /\ ac_actions = c.ac
          /\ battery_actions = c.battery
          /\ lock_state = [is_locked |-> FALSE, post_advanced |-> FALSE,
                           pid |-> "None", command |-> c.lock_command]
    /\ on_battery = "None"
    /\ action_index = 0
    /\ last_activity = 0
    /\ last_activity_display = 0
    /\ debounce = None
    /\ paused = FALSE
    /\ manually_paused = FALSE
    /\ previous_brightness = None
    /\ current_block = "None"
    /\ notify = FALSE
    /\ idle_pc = "top"
    /\ sleep_deadline = None
    /\ lock_notify = FALSE
    /\ spawned_tasks = "empty"
    /\ idle_task_handle = "None"
    /\ lock_task_handle = "None"
    /\ shutdown_pc = "idle"
    /\ idle_shutdown = FALSE
    /\ watch_pc = "outer"
    /\ watch_shutdown = FALSE
    /\ panicked = FALSE
    /\ dispatched = <<>>
    /\ clean = TRUE
    /\ fired = 0
    /\ pinned = FALSE

\* The cascade and activity with the instant path and its re-arming.
NextInstant ==
    \/ TriggerInstantActions
    \/ ResetInstantActions
    \/ CheckTimeouts
    \/ Reset
    \/ TriggerTick

SpecInstant == InitInstant /\ [][NextInstant]_vars

\* C39: instant actions fire at most once per arming.  A call of
\* trigger_instant_actions with instants_triggered clear dispatches every
\* action of instant_actions exactly once, in order, and sets the flag; a call
\* with the flag set dispatches nothing and changes nothing of the manager;
\* reset_instant_actions clears the flag and nothing else.
C39_InstantsOncePerArming ==
    [][ /\ (TriggerInstantActions /\ ~instants_triggered) =>
            /\ instants_triggered'
            /\ Len(dispatched') = Len(instant_actions)
            /\ \A k \in 1..Len(dispatched') : dispatched'[k] = k - 1
            /\ \A k \in 1..Len(instant_actions) : instant_actions[k].timeout = 0
            /\ Len(dispatched') =
                  Cardinality({k \in 1..Len(default_actions) : default_actions[k].timeout = 0})
                  + Cardinality({k \in 1..Len(ac_actions) : ac_actions[k].timeout = 0})
                  + Cardinality({k \in 1..Len(battery_actions) :
                                    battery_actions[k].timeout = 0})
        /\ (TriggerInstantActions /\ instants_triggered) =>
            /\ dispatched' = <<>>
            /\ instants_triggered'
            /\ UNCHANGED <<previous_brightness, lock_state, lock_notify, spawned_tasks,
                           default_actions, ac_actions, battery_actions, action_index>>
        /\ ResetInstantActions =>
            /\ ~instants_triggered'
            /\ dispatched' = <<>>
            /\ UNCHANGED <<previous_brightness, lock_state, lock_notify, spawned_tasks,
                           default_actions, ac_actions, battery_actions, action_index>>
      ]_vars

\* The instant actions of a configuration with two have just been dispatched,
\* the lock among them, and the flag is set.
C39_Witness ==
    /\ instants_triggered
    /\ dispatched = <<0, 1>>
    /\ Len(instant_actions) = 2
    /\ lock_state.is_locked
    /\ lock_notify

\* ------------------------------------------------------------------ C40

\* The legacy configurations: the actions without a profile prefix, those
\* under "ac." and those under "battery.".
TimerConfigs ==
    { [default |-> <<Act("Brightness", 0), Act("LockScreen", 1)>>,
       ac |-> <<>>, battery |-> <<>>],
      [default |-> <<Act("Custom", 1), Act("Suspend", 2)>>,
       ac |-> <<>>, battery |-> <<>>],
      [default |-> <<Act("Custom", 1)>>,
       ac |-> <<Act("Dpms", 0), Act("LockScreen", 1)>>,
       battery |-> <<Act("Suspend", 0), Act("Brightness", 1)>>],
      [default |-> <<>>,
       ac |-> <<>>, battery |-> <<Act("Brightness", 0)>>] }

\* vec![value; actions.len()]
Filled(actions, value) == [k \in 1..Len(actions) |-> value]

\* IdleTimer::new(cfg).  default_actions stands for the unprefixed actions
\* of the cfg the timer keeps.
IdleTimerNew(c, pre_suspend_command) ==
    [default_actions |-> c.default,
     pre_suspend_command |-> pre_suspend_command,
     last_activity |-> now,
     ac_actions |-> c.ac,
     battery_actions |-> c.battery,
     actions |-> IF c.ac # <<>> \/ c.battery # <<>> THEN c.ac ELSE c.default,
     on_ac |-> TRUE,
     is_idle_flags |-> Filled(IF c.ac # <<>> \/ c.battery # <<>> THEN c.ac ELSE c.default,
                              FALSE),
     triggered_actions |-> Filled(IF c.ac # <<>> \/ c.battery # <<>>
                                  THEN c.ac ELSE c.default, FALSE),
     active_kinds |-> {},
     previous_brightness |-> None,
     suspend_occurred |-> FALSE,
     spawned_tasks |-> "empty"]

\* The positions of t.actions that `wanted` selects, in order.
RECURSIVE Positions(_, _, _)
Positions(t, k, wanted) ==
    IF k >= Len(t.actions) THEN <<>>
    ELSE IF wanted[k + 1] THEN <<k>> \o Positions(t, k + 1, wanted)
    ELSE Positions(t, k + 1, wanted)

\* The dispatch loop shared by trigger_instant_actions and trigger_idle over
\* the positions `wanted` selects: flags and triggered_actions set, a
\* Brightness action captures the level once, a Suspend action asks for the
\* pre-suspend step, every action's command is spawned.
TimerDispatch(t, wanted, kinds, captured) ==
    [t EXCEPT
       !.is_idle_flags = [k \in 1..Len(t.actions) |-> @[k] \/ wanted[k]],
       !.triggered_actions = [k \in 1..Len(t.actions) |-> @[k] \/ wanted[k]],
       !.active_kinds = IF kinds
                        THEN @ \cup {t.actions[k].kind : k \in {j \in 1..Len(t.actions) :
                                                                    wanted[j]}}
                        ELSE @,
       !.previous_brightness =
           IF /\ kinds
              /\ @ = None
              /\ \E k \in 1..Len(t.actions) : wanted[k] /\ t.actions[k].kind = "Brightness"
           THEN captured ELSE @,
       !.suspend_occurred =
           @ \/ \E k \in 1..Len(t.actions) : wanted[k] /\ t.actions[k].kind = "Suspend",
       !.spawned_tasks = IF \E k \in 1..Len(t.actions) : wanted[k] THEN "running" ELSE @]

\* IdleTimer::trigger_instant_actions as a function of the timer
TimerInstants(t, captured) ==
    TimerDispatch(t, [k \in 1..Len(t.actions) |->
                         t.actions[k].timeout = 0 /\ ~t.is_idle_flags[k]],
                  TRUE, captured)

\* The timeout-0 positions trigger_instant_actions collects
InstantPositions(t) ==
    Positions(t, 0, [k \in 1..Len(t.actions) |->
                        t.actions[k].timeout = 0 /\ ~t.is_idle_flags[k]])

\* The variables of the manager and its tasks, which the legacy timer
\* does not share.
manager_vars ==
    <<now, debounce_seconds, default_actions, ac_actions, battery_actions,
      on_battery, action_index, last_activity, last_activity_display,
      debounce, paused, manually_paused, previous_brightness, lock_state,
      current_block, panicked, clean, fired, pinned, notify, lock_notify,
      spawned_tasks, sched, tasks, cfg, media_playing, instants_triggered>>

\* IdleTimer::init
TimerInit ==
    \E captured \in {None} \cup (0..MaxLevel) :
        /\ timer' = TimerInstants(timer, captured)
        /\ dispatched' = InstantPositions(timer)
        /\ UNCHANGED manager_vars

\* IdleTimer::update_power_source(on_ac).  `cleaned`: cleanup_tasks found
\* every spawned task finished.
update_power_source_timer(on_ac, cleaned, captured) ==
    IF timer.on_ac = on_ac
    THEN dispatched' = <<>> /\ UNCHANGED timer
    ELSE LET actions == IF on_ac THEN timer.ac_actions ELSE timer.battery_actions
             switched == [timer EXCEPT
                            !.on_ac = on_ac,
                            !.spawned_tasks = IF cleaned THEN "empty" ELSE @,
                            !.previous_brightness = None,
                            !.actions = actions,
                            !.is_idle_flags = Filled(actions, FALSE),
                            !.triggered_actions = Filled(actions, FALSE),
                            !.active_kinds = {}]
         IN /\ timer' = TimerInstants(switched, captured)
            /\ dispatched' = InstantPositions(switched)

TimerUpdatePowerSource ==
    \E on_ac \in BOOLEAN, cleaned \in BOOLEAN, captured \in {None} \cup (0..MaxLevel) :
        update_power_source_timer(on_ac, cleaned, captured) /\ UNCHANGED manager_vars

\* IdleTimer::trigger_idle: every action not yet flagged is dispatched.
TimerTriggerIdle ==
    /\ timer' = TimerDispatch(timer, [k \in 1..Len(timer.actions) |->
                                         ~timer.is_idle_flags[k]], FALSE, None)
    /\ dispatched' = Positions(timer, 0, [k \in 1..Len(timer.actions) |->
                                             ~timer.is_idle_flags[k]])
    /\ UNCHANGED manager_vars

\* IdleTimer::trigger_pre_suspend(rewind_timers, manual)
trigger_pre_suspend(rewind_timers, manual, captured) ==
    LET marked == [timer EXCEPT !.suspend_occurred = IF manual THEN @ ELSE TRUE]
        rewound == [marked EXCEPT
                      !.last_activity = now,
                      !.is_idle_flags = Filled(timer.actions, FALSE),
                      !.triggered_actions = Filled(timer.actions, FALSE),
                      !.active_kinds = {}]
    IN IF timer.pre_suspend_command = "Some" /\ rewind_timers
       THEN /\ timer' = TimerInstants(rewound, captured)
            /\ dispatched' = InstantPositions(rewound)
       ELSE /\ timer' = marked
            /\ dispatched' = <<>>

TimerTriggerPreSuspend ==
    \E rewind_timers \in BOOLEAN, manual \in BOOLEAN, captured \in {None} \cup (0..MaxLevel) :
        trigger_pre_suspend(rewind_timers, manual, captured) /\ UNCHANGED manager_vars

\* IdleTimer::mark_all_idle
TimerMarkAllIdle ==
    /\ timer' = [timer EXCEPT !.is_idle_flags = Filled(timer.actions, TRUE)]
    /\ dispatched' = <<>>
    /\ UNCHANGED manager_vars

\* A legacy timer as constructed, beside a manager as constructed.
InitTimer ==
    /\ now = 0
    /\ debounce_seconds \in 1..MaxDebounce
    /\ cfg = "Some"
    /\ media_playing = FALSE
    /\ instants_triggered = FALSE
    /\ \E c \in TimerConfigs, pre_suspend_command \in {"None", "Some"} :
          /\ timer = IdleTimerNew(c, pre_suspend_command)
          /\ default_actions = c.default
          /\ ac_actions = c.ac
          /\ battery_actions = c.battery
    /\ lock_state = [is_locked |-> FALSE, post_advanced |-> FALSE,
                     pid |-> "None", command |-> "None"]
    /\ on_battery = "None"
    /\ action_index = 0
    /\ last_activity = 0
    /\ last_activity_display = 0
    /\ debounce = None
    /\ paused = FALSE
    /\ manually_paused = FALSE
    /\ previous_brightness = None
    /\ current_block = "None"
    /\ notify = FALSE
    /\ idle_pc = "top"
    /\ sleep_deadline = None
    /\ lock_notify = FALSE
    /\ spawned_tasks = "empty"
    /\ idle_task_handle = "None"
    /\ lock_task_handle = "None"
    /\ shutdown_pc = "idle"
    /\ idle_shutdown = FALSE
    /\ watch_pc = "outer"
    /\ watch_shutdown = FALSE
    /\ panicked = FALSE
    /\ dispatched = <<>>
    /\ clean = TRUE
    /\ fired = 0
    /\ pinned = FALSE

\* The legacy timer's callers.
NextTimer ==
    \/ TimerInit
    \/ TimerUpdatePowerSource
    \/ TimerTriggerIdle
    \/ TimerTriggerPreSuspend
    \/ TimerMarkAllIdle

SpecTimer == InitTimer /\ [][NextTimer]_vars

\* C40: in the legacy IdleTimer with only default actions configured (ac and
\* battery sets empty) the active list equals the default actions after
\* update_power_source with any value, and update_power_source with the
\* power state the timer already has changes nothing.
C40_DefaultStaysActive ==
    [][\A on_ac \in BOOLEAN :
          (\E cleaned \in BOOLEAN, captured \in {None} \cup (0..MaxLevel) :
               update_power_source_timer(on_ac, cleaned, captured)) =>
             /\ (timer.ac_actions = <<>> /\ timer.battery_actions = <<>>) =>
                    timer'.actions = timer.default_actions
             /\ (on_ac = timer.on_ac) => timer' = timer
      ]_vars

====
